---- MODULE Spec2Model ----
(***************************************************************************)
(* Model of the HTML translation core of railway-worker                    *)
(* (src/gemini-translator.js): segment extraction, chunking, per-chunk     *)
(* and whole-document translation with validation and retry, reassembly,   *)
(* and the translation of a list of files one by one or all at once.       *)
(*                                                                         *)
(* Strings.  A JavaScript string is modelled as a sequence of pieces       *)
(* [c |-> class, n |-> length in UTF-16 code units].  The classes are the  *)
(* characters and words the code's regular expressions and substring       *)
(* tests tell apart:                                                       *)
(*   "<" ">" "/"            the markup characters (n = 1)                   *)
(*   "script" "code" "html" the words themselves (n = 6, 4, 4)              *)
(*   "a"                    a run of n Latin letters other than those words *)
(*   " " "LF"               a blank, a line feed (n = 1)                    *)
(*   "CYR"                  one Cyrillic letter (n = 1)                     *)
(*   "idx"                  the text "[i]" of a numbered line (field i)     *)
(* Offsets and lengths are counted in code units, so the thresholds of     *)
(* the code keep their values.                                             *)
(***************************************************************************)
EXTENDS Integers, Sequences, FiniteSets, TLC

VARIABLES
  apiKey,                 \* process.env.GEMINI_API_KEY is set
  html, language,         \* the arguments of translateHTML
  pc,                     \* where the running function stands
  segments,               \* translateHTML: segments
  chunks,                 \* translateHTML: chunks
  i,                      \* translateHTML: the loop index over chunks
  attempt,                \* translateTextChunk / translateHTMLDirect: attempt
  allTranslatedSegments,  \* translateHTML: allTranslatedSegments
  response,               \* the text of the last generateContent result
  translatedHTML,         \* translateHTML / translateHTMLDirect: translatedHTML
  outcome,                \* what translateHTML returned or threw
  requests,               \* number of generateContent calls issued
  calls,                  \* per generateContent call, in order: chunkIndex + 1
                          \* of the chunk it is for, 0 for a whole document
  sleeps,                 \* the arguments of the sleep calls, in order
  maxChunkSize,           \* createTextChunks: maxChunkSize
  outstanding,            \* generateContent calls issued and not yet settled
  files,                  \* translateAllHTMLFiles: files
  variant,                \* which translateAllHTMLFiles runs: "sequential"
                          \* (lines 329-356) or "parallel" (lines 543-577)
  tasks,                  \* per file, the promise of its translateHTML call
  results,                \* translateAllHTMLFiles (sequential): results
  fileIndex,              \* translateAllHTMLFiles (sequential): i
  order,                  \* the files' numbers in the order their calls settled
  batch,                  \* what translateAllHTMLFiles returned or threw
  isValid,                \* translateHTML (lines 431-540): isValid
  jobAttempt,             \* processTranslationWithRetry: attempt
  jobDelays,              \* processTranslationWithRetry: the delays waited, in order
  jobLog,                 \* per attempt of the job, how processTranslationJob ended
  body,                   \* POST /translate: req.body
  reply,                  \* POST /translate: what res was given
  loops,                  \* number of processTranslationWithRetry calls started
  worker,                 \* which processTranslationJob runs: "translator.js"
                          \* or "part_000"
  live,                   \* per attempt of the job, how many of the
                          \* translateHTML calls it started are still running
  jobRequests,            \* the generateContent calls issued: by a call of
                          \* which attempt, during which attempt
  decrements,             \* the attempts that called decrement_pages, in order
  dbWrites,               \* the status updates issued to the database, in order
  jobError                \* processTranslationJob: error of the catch block

vars == <<apiKey, html, language, pc, segments, chunks, i, attempt,
          allTranslatedSegments, response, translatedHTML, outcome, requests,
          calls, sleeps, maxChunkSize, outstanding, files, variant, tasks,
          results, fileIndex, order, batch, isValid, jobAttempt, jobDelays,
          jobLog, body, reply, loops, worker, live, jobRequests, decrements,
          dbWrites, jobError>>

\* the state of the request handler and of processTranslationJob
workerVars == <<body, reply, loops, worker, live, jobRequests, decrements,
                dbWrites, jobError>>

\* no request has come in
WorkerIdle ==
  /\ body = <<>>
  /\ reply = <<>>
  /\ loops = 0
  /\ worker = "translator.js"
  /\ live = <<>>
  /\ jobRequests = {}
  /\ decrements = <<>>
  /\ dbWrites = <<>>
  /\ jobError = ""

\* the state of processTranslationWithRetry
jobVars == <<jobAttempt, jobDelays, jobLog, workerVars>>

\* processTranslationWithRetry is not running
JobIdle ==
  /\ jobAttempt = 0
  /\ jobDelays = <<>>
  /\ jobLog = <<>>
  /\ WorkerIdle

\* the state of translateAllHTMLFiles
batchVars == <<files, variant, tasks, results, fileIndex, order, batch>>

\* translateAllHTMLFiles is not running
BatchIdle ==
  /\ files = <<>>
  /\ variant = "sequential"
  /\ tasks = <<>>
  /\ results = <<>>
  /\ fileIndex = 0
  /\ order = <<>>
  /\ batch = [kind |-> "pending", files |-> <<>>,
              error |-> [message |-> "", chunk |-> 0]]

(***************************************************************************)
(* String primitives                                                       *)
(***************************************************************************)
Min(S) == CHOOSE x \in S : \A y \in S : x <= y

Ch(c) == [c |-> c, n |-> 1]

KeywordLength(w) == IF w = "script" THEN 6 ELSE IF w = "style" THEN 5 ELSE IF w = "pre" THEN 3 ELSE 4

Kw(w) == [c |-> w, n |-> KeywordLength(w)]

Latin(n) == [c |-> "a", n |-> n]

\* String.prototype.length
RECURSIVE StrLen(_)
StrLen(s) == IF s = <<>> THEN 0 ELSE Head(s).n + StrLen(Tail(s))

\* Adjacent runs of Latin letters are one run: every string has one representation.
RECURSIVE Norm(_)
Norm(s) ==
  IF Len(s) <= 1 THEN s
  ELSE IF s[1].c = "a" /\ s[2].c = "a"
       THEN Norm(<<Latin(s[1].n + s[2].n)>> \o SubSeq(s, 3, Len(s)))
       ELSE <<s[1]>> \o Norm(Tail(s))

\* a + b on strings
Concat(s, t) == Norm(s \o t)

\* k code units of a piece cut in two (only a piece longer than one unit can be
\* cut): part of a run of letters, or of a word, is a run of letters
CutPiece(p, k) == Latin(k)

\* s.slice(k), k >= 0
RECURSIVE DropUnits(_, _)
DropUnits(s, k) ==
  IF k <= 0 \/ s = <<>> THEN s
  ELSE IF Head(s).n <= k THEN DropUnits(Tail(s), k - Head(s).n)
       ELSE <<CutPiece(Head(s), Head(s).n - k)>> \o Tail(s)

\* s.slice(0, k), k >= 0
RECURSIVE TakeUnits(_, _)
TakeUnits(s, k) ==
  IF k <= 0 \/ s = <<>> THEN <<>>
  ELSE IF Head(s).n <= k THEN <<Head(s)>> \o TakeUnits(Tail(s), k - Head(s).n)
       ELSE <<CutPiece(Head(s), k)>>

\* s.slice(from, to) / s.substring(from, to) with 0 <= from
Slice(s, from, to) == Norm(TakeUnits(DropUnits(s, from), to - from))

\* s.slice(from)
SliceFrom(s, from) == Norm(DropUnits(s, from))

\* offset in code units of the piece with index p
Offset(s, p) == StrLen(SubSeq(s, 1, p - 1))

IsSpace(c) == c \in {" ", "LF"}

\* String.prototype.trim
RECURSIVE TrimStart(_)
TrimStart(s) == IF s # <<>> /\ IsSpace(Head(s).c) THEN TrimStart(Tail(s)) ELSE s

RECURSIVE TrimEnd(_)
TrimEnd(s) ==
  IF s # <<>> /\ IsSpace(s[Len(s)].c) THEN TrimEnd(SubSeq(s, 1, Len(s) - 1)) ELSE s

Trim(s) == TrimStart(TrimEnd(s))

\* s.trim().length > 0
NonBlank(s) == Trim(s) # <<>>

\* index of the first piece of class c at or after index from, 0 if none
FirstIndex(s, from, c) ==
  LET S == {q \in from..Len(s) : s[q].c = c}
  IN IF S = {} THEN 0 ELSE Min(S)

(***************************************************************************)
(* extractTextSegments: the scan of                                        *)
(*  /<(script|style|code|pre)[^>]*>[\s\S]*?<\/\1>|<[^>]+>|([^<]+)/gi      *)
(* Each AltNEnd gives the index after the match of alternative N tried at  *)
(* index p, 0 when the alternative does not match there.                   *)
(***************************************************************************)
NonTranslatable == {"script", "style", "code", "pre"}

\* <\/\1> at index r
CloseTagAt(h, r, name) ==
  /\ r + 3 <= Len(h)
  /\ h[r].c = "<" /\ h[r + 1].c = "/" /\ h[r + 2].c = name /\ h[r + 3].c = ">"

\* <(script|style|code|pre)[^>]*>[\s\S]*?<\/\1>
Alt1End(h, p) ==
  IF h[p].c = "<" /\ p + 1 <= Len(h) /\ h[p + 1].c \in NonTranslatable
  THEN LET q == FirstIndex(h, p + 2, ">")
           R == {r \in (q + 1)..Len(h) : CloseTagAt(h, r, h[p + 1].c)}
       IN IF q = 0 \/ R = {} THEN 0 ELSE Min(R) + 4
  ELSE 0

\* <[^>]+>
Alt2End(h, p) ==
  IF h[p].c = "<"
  THEN LET q == FirstIndex(h, p + 1, ">")
       IN IF q = 0 \/ q = p + 1 THEN 0 ELSE q + 1
  ELSE 0

\* ([^<]+)
Alt3End(h, p) ==
  IF h[p].c # "<"
  THEN LET q == FirstIndex(h, p, "<")
       IN IF q = 0 THEN Len(h) + 1 ELSE q
  ELSE 0

\* faulty variant: the segment keeps the trimmed text under the offsets of the whole run
SegmentTrimmed(h, p, textContent) ==
  [start |-> Offset(h, p),
   end |-> Offset(h, p) + StrLen(textContent),
   text |-> Trim(textContent),
   isTranslatable |-> TRUE]

\* the object pushed for a match at index p (match.index is its offset) whose
\* match[0] and match[2] are textContent
Segment(h, p, textContent) ==
  [start |-> Offset(h, p),
   end |-> Offset(h, p) + StrLen(textContent),
   text |-> textContent,
   isTranslatable |-> TRUE]

\* the loop of tagPattern.exec(html): acc is the list `segments`
RECURSIVE ExecLoop(_, _, _)
ExecLoop(h, p, acc) ==
  IF p > Len(h) THEN acc
  ELSE LET e1 == Alt1End(h, p)
           e2 == Alt2End(h, p)
           e3 == Alt3End(h, p)
       IN IF e1 # 0 THEN ExecLoop(h, e1, acc)
          ELSE IF e2 # 0 THEN ExecLoop(h, e2, acc)
          ELSE IF e3 # 0
               THEN LET textContent == SubSeq(h, p, e3 - 1)
                    IN IF NonBlank(textContent)
                       THEN ExecLoop(h, e3, Append(acc, Segment(h, p, textContent)))
                       ELSE ExecLoop(h, e3, acc)
               ELSE ExecLoop(h, p + 1, acc)

extractTextSegments(h) == ExecLoop(h, 1, <<>>)

(***************************************************************************)
(* reassembleHTML                                                          *)
(***************************************************************************)
\* faulty variant: the comparator reversed, (a, b) => a.start - b.start
RECURSIVE InsertAsc(_, _)
InsertAsc(x, sorted) ==
  IF sorted = <<>> THEN <<x>>
  ELSE IF Head(sorted).start <= x.start THEN <<Head(sorted)>> \o InsertAsc(x, Tail(sorted))
       ELSE <<x>> \o sorted

RECURSIVE SortByStartAsc(_)
SortByStartAsc(segs) ==
  IF segs = <<>> THEN <<>>
  ELSE InsertAsc(segs[Len(segs)], SortByStartAsc(SubSeq(segs, 1, Len(segs) - 1)))

\* Array.prototype.sort((a, b) => b.start - a.start): stable, descending start
RECURSIVE InsertDesc(_, _)
InsertDesc(x, sorted) ==
  IF sorted = <<>> THEN <<x>>
  ELSE IF Head(sorted).start >= x.start THEN <<Head(sorted)>> \o InsertDesc(x, Tail(sorted))
       ELSE <<x>> \o sorted

RECURSIVE SortByStartDesc(_)
SortByStartDesc(segs) ==
  IF segs = <<>> THEN <<>>
  ELSE InsertDesc(segs[Len(segs)], SortByStartDesc(SubSeq(segs, 1, Len(segs) - 1)))

\* faulty variant: the tail taken one code unit late
ReplaceSegmentLate(result, segment) ==
  IF segment.translatedText # <<>>
  THEN Concat(Concat(Slice(result, 0, segment.start), segment.translatedText),
              SliceFrom(result, segment.end + 1))
  ELSE result

\* one iteration of the loop over sortedSegments; an absent translatedText is <<>>
ReplaceSegment(result, segment) ==
  IF segment.translatedText # <<>>
  THEN Concat(Concat(Slice(result, 0, segment.start), segment.translatedText),
              SliceFrom(result, segment.end))
  ELSE result

RECURSIVE ReplaceAll(_, _)
ReplaceAll(result, sortedSegments) ==
  IF sortedSegments = <<>> THEN result
  ELSE ReplaceAll(ReplaceSegment(result, Head(sortedSegments)), Tail(sortedSegments))

\* faulty variant: the segments replaced in the order of the list given
reassembleHTMLUnsorted(originalHTML, translatedSegments) ==
  ReplaceAll(originalHTML, translatedSegments)

reassembleHTML(originalHTML, translatedSegments) ==
  ReplaceAll(originalHTML, SortByStartDesc(translatedSegments))

\* {...seg, translatedText: t}
WithTranslation(seg, t) ==
  [start |-> seg.start, end |-> seg.end, text |-> seg.text,
   isTranslatable |-> seg.isTranslatable, translatedText |-> t]

(***************************************************************************)
(* createTextChunks                                                        *)
(***************************************************************************)
\* faulty variant: a chunk is closed as soon as the budget is reached (>= for >)
RECURSIVE ChunkLoopEager(_, _, _, _, _, _)
ChunkLoopEager(segs, k, budget, acc, currentChunk, currentSize) ==
  IF k > Len(segs)
  THEN IF Len(currentChunk) > 0 THEN Append(acc, currentChunk) ELSE acc
  ELSE LET size == StrLen(segs[k].text)
       IN IF currentSize + size >= budget /\ Len(currentChunk) > 0
          THEN ChunkLoopEager(segs, k + 1, budget, Append(acc, currentChunk), <<segs[k]>>, size)
          ELSE ChunkLoopEager(segs, k + 1, budget, acc, Append(currentChunk, segs[k]),
                              currentSize + size)

\* the for loop over segments from index k on, then the final push
RECURSIVE ChunkLoop(_, _, _, _, _, _)
ChunkLoop(segs, k, budget, acc, currentChunk, currentSize) ==
  IF k > Len(segs)
  THEN IF Len(currentChunk) > 0 THEN Append(acc, currentChunk) ELSE acc
  ELSE LET size == StrLen(segs[k].text)
       IN IF currentSize + size > budget /\ Len(currentChunk) > 0
          THEN ChunkLoop(segs, k + 1, budget, Append(acc, currentChunk), <<segs[k]>>, size)
          ELSE ChunkLoop(segs, k + 1, budget, acc, Append(currentChunk, segs[k]),
                         currentSize + size)

\* faulty variant: the push after the loop forgotten
createTextChunksNoFlush(segs, budget) ==
  LET c == ChunkLoop(segs, 1, budget, <<>>, <<>>, 0)
  IN IF c = <<>> THEN c ELSE SubSeq(c, 1, Len(c) - 1)

createTextChunks(segs, budget) == ChunkLoop(segs, 1, budget, <<>>, <<>>, 0)

(***************************************************************************)
(* LANGUAGE_PATTERNS and the strict list                                   *)
(***************************************************************************)
strictLanguageCheck == {"ru", "ar", "zh", "ja", "ko", "he", "th", "hi", "el"}

\* the classes of the model a language's pattern matches: ru /[А-Яа-яЁё]/,
\* vi /[À-ỹ]/ (the range holds the Cyrillic block), es .. tr /./ (any
\* character but a line terminator); the other ranges hold no class of the model
LANGUAGE_PATTERNS(lang) ==
  IF lang \in {"ru", "vi"} THEN {"CYR"}
  ELSE IF lang \in {"es", "fr", "de", "pt", "it", "pl", "nl", "sv", "tr"}
       THEN {"<", ">", "/", "script", "style", "code", "pre", "html", "a", " ",
             "CYR", "[0]", "[1]", "[2]", "fence", "!DOCTYPE"}
       ELSE {}

\* pattern.test(text)
PatternTest(lang, text) == \E k \in 1..Len(text) : text[k].c \in LANGUAGE_PATTERNS(lang)

(***************************************************************************)
(* translateTextChunk: the request text, the parse and the checks          *)
(***************************************************************************)
maxRetries == 3

IdxName == <<"[0]", "[1]", "[2]">>

\* the text "[k]"
Idx(k) == [c |-> IdxName[k + 1], n |-> 3]

IsIdx(c) == \E k \in 1..Len(IdxName) : IdxName[k] = c

\* parseInt(match[1])
IdxValue(c) == (CHOOSE k \in 1..Len(IdxName) : IdxName[k] = c) - 1

\* s.split('\n')
RECURSIVE SplitLines(_)
SplitLines(s) ==
  LET q == FirstIndex(s, 1, "LF")
  IN IF q = 0 THEN <<s>>
     ELSE <<SubSeq(s, 1, q - 1)>> \o SplitLines(SubSeq(s, q + 1, Len(s)))

\* strings.join('\n')
RECURSIVE JoinLines(_)
JoinLines(ls) ==
  IF ls = <<>> THEN <<>>
  ELSE IF Len(ls) = 1 THEN ls[1]
       ELSE ls[1] \o <<Ch("LF")>> \o JoinLines(Tail(ls))

\* textSegments.map((seg, i) => `[${i}] ${seg.text}`).join('\n')
textList(textSegments) ==
  JoinLines([k \in 1..Len(textSegments) |->
               <<Idx(k - 1), Ch(" ")>> \o textSegments[k].text])

\* line.match(/^\[(\d+)\]\s*(.*)$/)
LineMatches(line) == line # <<>> /\ IsIdx(line[1].c)

\* the loop over lines: translatedMap as a function index -> text
RECURSIVE ParseLines(_, _)
ParseLines(lines, map) ==
  IF lines = <<>> THEN map
  ELSE LET line == Head(lines)
       IN IF LineMatches(line)
          THEN LET index == IdxValue(line[1].c)
                   translatedText == TrimStart(Tail(line))
               IN ParseLines(Tail(lines),
                    [x \in DOMAIN map \cup {index} |->
                       IF x = index THEN translatedText ELSE map[x]])
          ELSE ParseLines(Tail(lines), map)

EmptyMap == [x \in {} |-> <<>>]

\* translatedMap built from result.response.text()
ParseResponse(text) == ParseLines(SplitLines(Trim(text)), EmptyMap)

\* faulty variant: half of the segments are enough
TooFewHalf(map, textSegments) == 2 * Cardinality(DOMAIN map) < Len(textSegments)

\* translatedMap.size < textSegments.length * 0.8
TooFew(map, textSegments) == 5 * Cardinality(DOMAIN map) < 4 * Len(textSegments)

\* strict language and no value of the map matches its pattern
NoTargetChars(map, lang) ==
  /\ lang \in strictLanguageCheck
  /\ ~\E x \in DOMAIN map : PatternTest(lang, map[x])

\* the attempt goes on to the return statement
ChunkAccepted(text, textSegments, lang) ==
  LET map == ParseResponse(text)
  IN ~TooFew(map, textSegments) /\ ~NoTargetChars(map, lang)

\* faulty variant: the map is read at i + 1
ChunkResultShifted(text, textSegments) ==
  LET map == ParseResponse(text)
  IN [k \in 1..Len(textSegments) |->
        WithTranslation(textSegments[k],
          IF k \in DOMAIN map /\ map[k] # <<>>
          THEN map[k] ELSE textSegments[k].text)]

\* textSegments.map((seg, i) => ({...seg, translatedText: translatedMap.get(i) || seg.text}))
ChunkResult(text, textSegments) ==
  LET map == ParseResponse(text)
  IN [k \in 1..Len(textSegments) |->
        WithTranslation(textSegments[k],
          IF (k - 1) \in DOMAIN map /\ map[k - 1] # <<>>
          THEN map[k - 1] ELSE textSegments[k].text)]

(***************************************************************************)
(* The checks on a whole document                                          *)
(***************************************************************************)
\* s.includes(pat)
Includes(s, pat) == \E k \in 1..(Len(s) - Len(pat) + 1) : SubSeq(s, k, k + Len(pat) - 1) = pat

\* x.toLowerCase().includes("<html") && x.toLowerCase().includes("</html>")
hasHTML(x) ==
  /\ Includes(x, <<Ch("<"), Kw("html")>>)
  /\ Includes(x, <<Ch("<"), Ch("/"), Kw("html"), Ch(">")>>)

\* the language test of the chunked path: strict language and no match in x
lacksLanguageChars(x, lang) ==
  lang \in strictLanguageCheck /\ ~PatternTest(lang, x)

\* faulty variant: the character check made for every language whose table
\* entry is a script range
isValidTranslationByTable(x, lang) ==
  /\ hasHTML(x)
  /\ ~(StrLen(x) < 200)
  /\ ~(lang \in strictLanguageCheck \cup {"vi"} /\ ~PatternTest(lang, x))

\* isValidTranslation (lines 387-424); originalHtml is only logged, and every
\* language of strictLanguageCheck has a pattern in the table
isValidTranslation(x, lang) ==
  /\ hasHTML(x)
  /\ ~(StrLen(x) < 200)
  /\ ~(lang \in strictLanguageCheck /\ ~PatternTest(lang, x))

(***************************************************************************)
(* translateHTMLDirect: the clean-up of the response                       *)
(***************************************************************************)
StartsWith(s, pat) == Len(s) >= Len(pat) /\ SubSeq(s, 1, Len(pat)) = pat

\* .replace(/^```html\s*/i, "").replace(/^```\s*/i, "").replace(/\s*```$/i, "")
StripFences(t) ==
  LET fence == [c |-> "fence", n |-> 3]
      r1 == IF StartsWith(t, <<fence, Kw("html")>>)
            THEN TrimStart(SubSeq(t, 3, Len(t))) ELSE t
      r2 == IF StartsWith(r1, <<fence>>) THEN TrimStart(Tail(r1)) ELSE r1
  IN IF r2 # <<>> /\ r2[Len(r2)] = fence THEN TrimEnd(SubSeq(r2, 1, Len(r2) - 1)) ELSE r2

\* /<!DOCTYPE\s+html>/i matches at index p
DocTypeAt(t, p) ==
  /\ p + 1 <= Len(t) /\ t[p].c = "<" /\ t[p + 1].c = "!DOCTYPE"
  /\ \E q \in (p + 3)..(Len(t) - 1) :
       /\ \A w \in (p + 2)..(q - 1) : IsSpace(t[w].c)
       /\ t[q].c = "html" /\ t[q + 1].c = ">"

\* t.search(/<!DOCTYPE\s+html>/i)
docTypeIndex(t) ==
  LET S == {p \in 1..Len(t) : DocTypeAt(t, p)}
  IN IF S = {} THEN -1 ELSE Offset(t, Min(S))

\* t.toLowerCase().lastIndexOf("</html>")
htmlEndIndex(t) ==
  LET S == {p \in 1..Len(t) : CloseTagAt(t, p, "html")}
  IN IF S = {} THEN -1 ELSE Offset(t, CHOOSE p \in S : \A r \in S : r <= p)

\* lines 295-307: the response text cleaned up
CleanResponse(text) ==
  LET t1 == StripFences(text)
      t2 == IF docTypeIndex(t1) > 0 THEN SliceFrom(t1, docTypeIndex(t1)) ELSE t1
      t3 == IF htmlEndIndex(t2) > 0 THEN Slice(t2, 0, htmlEndIndex(t2) + 7) ELSE t2
  IN Trim(t3)

(***************************************************************************)
(* Results and errors                                                      *)
(***************************************************************************)
NoError == [message |-> "", chunk |-> 0]

Pending == [kind |-> "pending", html |-> <<>>, error |-> NoError]

Returned(h) == [kind |-> "returned", html |-> h, error |-> NoError]

\* throw new Error(message); chunk is the ${chunkIndex + 1} of the message, if any
Thrown(message, chunk) ==
  [kind |-> "thrown", html |-> <<>>, error |-> [message |-> message, chunk |-> chunk]]

\* the error generateContent rejects with
TransportError == "generateContent failed"

(***************************************************************************)
(* Inputs of translateHTML and responses of the generation service         *)
(***************************************************************************)
CHUNK_THRESHOLD == 15000

ChunkBudget == 4000

MaxLines == 2

RECURSIVE Flatten(_)
Flatten(ss) == IF ss = <<>> THEN <<>> ELSE Head(ss) \o Flatten(Tail(ss))

OpenTag(w) == <<Ch("<"), Kw(w), Ch(">")>>
CloseTag(w) == <<Ch("<"), Ch("/"), Kw(w), Ch(">")>>

\* <p>
ParTag == <<Ch("<"), Latin(1), Ch(">")>>

\* nothing, or a tag of exactly CHUNK_THRESHOLD code units
Pads == { <<>>, <<Ch("<"), Latin(CHUNK_THRESHOLD - 2), Ch(">")>> }

Bodies ==
  { <<>>,
    <<Latin(1)>>,
    <<Latin(ChunkBudget + 1)>>,
    <<Latin(1)>> \o ParTag \o <<Ch(" "), Latin(1)>>,
    <<Latin(ChunkBudget)>> \o ParTag \o <<Latin(1)>>,
    <<Latin(ChunkBudget)>> \o ParTag \o <<Latin(1)>> \o ParTag \o <<Latin(1), Ch("LF")>>,
    OpenTag("script") \o <<Latin(1)>> \o CloseTag("script") \o <<Latin(1)>>,
    <<Latin(CHUNK_THRESHOLD)>> }

Wrapped(inner) == {inner, OpenTag("html") \o inner \o CloseTag("html")}

MainDocs == {pad \o doc : pad \in Pads, doc \in UNION {Wrapped(b) : b \in Bodies}}

Languages == {"en", "ru", "es"}

\* the lines a chunk response is made of: "[0] я", "[1] a", "[2] a", "[0]"
\* and "a"
ResponseLines ==
  { <<Idx(0), Ch(" "), Ch("CYR")>>, <<Idx(1), Ch(" "), Latin(1)>>,
    <<Idx(2), Ch(" "), Latin(1)>>, <<Idx(0)>>, <<Latin(1)>> }

\* what generateContent may answer to the request for a chunk: up to MaxLines
\* lines, or the request text itself
ChunkResponses(textSegments) ==
  {JoinLines(ls) : ls \in UNION {[1..k -> ResponseLines] : k \in 0..MaxLines}}
  \cup {textList(textSegments)}

\* what generateContent may answer to the request for a whole document
DirectResponses ==
  LET fence == [c |-> "fence", n |-> 3]
      doctype == <<Ch("<"), [c |-> "!DOCTYPE", n |-> 8], Ch(" "), Kw("html"), Ch(">")>>
  IN {Norm(Flatten(<<pre, dt, open, txt, close, post>>)) :
        pre \in {<<>>, <<fence, Kw("html"), Ch("LF")>>, <<Latin(1), Ch(" ")>>},
        dt \in {<<>>, doctype},
        open \in {<<>>, OpenTag("html")},
        txt \in {<<Latin(1)>>, <<Ch("CYR")>>, <<Latin(200)>>, <<Ch("CYR"), Latin(200)>>},
        close \in {<<>>, CloseTag("html")},
        post \in {<<>>, <<Ch("LF"), fence>>, <<Ch(" "), Latin(1)>>}}

(***************************************************************************)
(* Spec: one call of translateHTML (lines 189-255) with translateTextChunk *)
(* and translateHTMLDirect, an action per stretch between two awaits       *)
(***************************************************************************)
Init ==
  /\ apiKey \in BOOLEAN
  /\ html \in MainDocs
  /\ language \in Languages
  /\ pc = "start"
  /\ segments = <<>>
  /\ chunks = <<>>
  /\ i = 0
  /\ attempt = 0
  /\ allTranslatedSegments = <<>>
  /\ response = <<>>
  /\ translatedHTML = <<>>
  /\ outcome = Pending
  /\ requests = 0
  /\ calls = <<>>
  /\ sleeps = <<>>
  /\ maxChunkSize = ChunkBudget
  /\ outstanding = 0
  /\ isValid = FALSE
  /\ BatchIdle
  /\ JobIdle

inputs == <<apiKey, html, language, maxChunkSize>>

\* lines 190-192
ConfigError ==
  /\ pc = "start" /\ ~apiKey
  /\ outcome' = Thrown("GEMINI_API_KEY not configured", 0)
  /\ pc' = "done"
  /\ UNCHANGED <<jobVars, batchVars, isValid, outstanding, inputs, segments,
                 chunks, i, attempt, allTranslatedSegments, response,
                 translatedHTML, requests, calls, sleeps>>

\* faulty variant: the document is returned trimmed
NoOpEnglishTrimmed ==
  /\ pc = "start" /\ apiKey /\ language = "en"
  /\ outcome' = Returned(Trim(html))
  /\ pc' = "done"
  /\ UNCHANGED <<jobVars, batchVars, isValid, outstanding, inputs, segments,
                 chunks, i, attempt, allTranslatedSegments, response,
                 translatedHTML, requests, calls, sleeps>>

\* lines 194-196
NoOpEnglish ==
  /\ pc = "start" /\ apiKey /\ language = "en"
  /\ outcome' = Returned(html)
  /\ pc' = "done"
  /\ UNCHANGED <<jobVars, batchVars, isValid, outstanding, inputs, segments,
                 chunks, i, attempt, allTranslatedSegments, response,
                 translatedHTML, requests, calls, sleeps>>

\* faulty variant: the direct path entered without the credential check
StartDirectUnchecked ==
  /\ pc = "start" /\ language # "en"
  /\ StrLen(html) <= CHUNK_THRESHOLD
  /\ attempt' = 1
  /\ pc' = "direct_call"
  /\ UNCHANGED <<jobVars, batchVars, isValid, outstanding, inputs, segments,
                 chunks, i, allTranslatedSegments, response, translatedHTML,
                 outcome, requests, calls, sleeps>>

\* lines 200-203 and the entry of translateHTMLDirect
StartDirect ==
  /\ pc = "start" /\ apiKey /\ language # "en"
  /\ StrLen(html) <= CHUNK_THRESHOLD
  /\ attempt' = 1
  /\ pc' = "direct_call"
  /\ UNCHANGED <<jobVars, batchVars, isValid, outstanding, inputs, segments,
                 chunks, i, allTranslatedSegments, response, translatedHTML,
                 outcome, requests, calls, sleeps>>

\* faulty variant: the unchanged document goes through the checks of the
\* reassembled result
NoSegmentsChecked ==
  /\ pc = "start" /\ apiKey /\ language # "en"
  /\ StrLen(html) > CHUNK_THRESHOLD
  /\ extractTextSegments(html) = <<>>
  /\ segments' = <<>>
  /\ outcome' =
       IF ~hasHTML(html)
       THEN Thrown("Chunked translation corrupted HTML structure", 0)
       ELSE IF lacksLanguageChars(html, language)
            THEN Thrown("No characters found in translated HTML", 0)
            ELSE Returned(html)
  /\ pc' = "done"
  /\ UNCHANGED <<jobVars, batchVars, isValid, outstanding, inputs, chunks, i,
                 attempt, allTranslatedSegments, response, translatedHTML,
                 requests, calls, sleeps>>

\* lines 208-214
NoSegments ==
  /\ pc = "start" /\ apiKey /\ language # "en"
  /\ StrLen(html) > CHUNK_THRESHOLD
  /\ extractTextSegments(html) = <<>>
  /\ segments' = <<>>
  /\ outcome' = Returned(html)
  /\ pc' = "done"
  /\ UNCHANGED <<jobVars, batchVars, isValid, outstanding, inputs, chunks, i,
                 attempt, allTranslatedSegments, response, translatedHTML,
                 requests, calls, sleeps>>

\* faulty variant: createTextChunks called without its second argument, so
\* with its default budget of 5000
StartChunkedDefaultBudget ==
  /\ pc = "start" /\ apiKey /\ language # "en"
  /\ StrLen(html) > CHUNK_THRESHOLD
  /\ extractTextSegments(html) # <<>>
  /\ segments' = extractTextSegments(html)
  /\ chunks' = createTextChunks(segments', 5000)
  /\ i' = 0
  /\ attempt' = 1
  /\ pc' = "chunk_call"
  /\ UNCHANGED <<jobVars, batchVars, isValid, outstanding, inputs,
                 allTranslatedSegments, response, translatedHTML, outcome,
                 requests, calls, sleeps>>

\* faulty variant: the chunked path also taken at exactly the threshold
StartChunkedAtThreshold ==
  /\ pc = "start" /\ apiKey /\ language # "en"
  /\ StrLen(html) >= CHUNK_THRESHOLD
  /\ extractTextSegments(html) # <<>>
  /\ segments' = extractTextSegments(html)
  /\ chunks' = createTextChunks(segments', ChunkBudget)
  /\ i' = 0
  /\ attempt' = 1
  /\ pc' = "chunk_call"
  /\ UNCHANGED <<jobVars, batchVars, isValid, outstanding, inputs,
                 allTranslatedSegments, response, translatedHTML, outcome,
                 requests, calls, sleeps>>

\* lines 208-225 up to the first request of the first chunk
StartChunked ==
  /\ pc = "start" /\ apiKey /\ language # "en"
  /\ StrLen(html) > CHUNK_THRESHOLD
  /\ extractTextSegments(html) # <<>>
  /\ segments' = extractTextSegments(html)
  /\ chunks' = createTextChunks(segments', ChunkBudget)
  /\ i' = 0
  /\ attempt' = 1
  /\ pc' = "chunk_call"
  /\ UNCHANGED <<jobVars, batchVars, isValid, outstanding, inputs,
                 allTranslatedSegments, response, translatedHTML, outcome,
                 requests, calls, sleeps>>

(* translateHTMLDirect, lines 287-326 *)

\* line 291: the request is issued
DirectCall ==
  /\ pc = "direct_call"
  /\ requests' = requests + 1
  /\ outstanding' = outstanding + 1
  /\ calls' = Append(calls, 0)
  /\ pc' = "direct_await"
  /\ UNCHANGED <<jobVars, batchVars, isValid, inputs, segments, chunks, i,
                 attempt, allTranslatedSegments, response, translatedHTML,
                 outcome, sleeps>>

\* faulty variant: the same delay after every failed attempt
DirectCatchFlat(message) ==
  IF attempt = maxRetries
  THEN /\ outcome' = Thrown(message, 0)
       /\ pc' = "done"
       /\ UNCHANGED sleeps
  ELSE /\ sleeps' = Append(sleeps, 2000)
       /\ pc' = "direct_backoff"
       /\ UNCHANGED outcome

\* lines 318-322: the catch block, entered with error message `message`
DirectCatch(message) ==
  IF attempt = maxRetries
  THEN /\ outcome' = Thrown(message, 0)
       /\ pc' = "done"
       /\ UNCHANGED sleeps
  ELSE /\ sleeps' = Append(sleeps, 2000 * attempt)
       /\ pc' = "direct_backoff"
       /\ UNCHANGED outcome

\* lines 292-316: a response that passes the check is returned
DirectReturn ==
  /\ pc = "direct_await"
  /\ outstanding' = outstanding - 1
  /\ \E r \in DirectResponses :
       /\ hasHTML(CleanResponse(r))
       /\ response' = r
       /\ translatedHTML' = CleanResponse(r)
       /\ outcome' = Returned(CleanResponse(r))
  /\ pc' = "done"
  /\ UNCHANGED <<jobVars, batchVars, isValid, inputs, segments, chunks, i,
                 attempt, allTranslatedSegments, requests, calls, sleeps>>

\* lines 292-313, 318-322: a response that fails the check throws into the catch
DirectInvalid ==
  /\ pc = "direct_await"
  /\ outstanding' = outstanding - 1
  /\ \E r \in DirectResponses :
       /\ ~hasHTML(CleanResponse(r))
       /\ response' = r
       /\ translatedHTML' = CleanResponse(r)
  /\ DirectCatch("Missing HTML structure")
  /\ UNCHANGED <<jobVars, batchVars, isValid, inputs, segments, chunks, i,
                 attempt, allTranslatedSegments, requests, calls>>

\* lines 291, 318-322: generateContent (or response.text()) throws
DirectThrow ==
  /\ pc = "direct_await"
  /\ outstanding' = outstanding - 1
  /\ DirectCatch(TransportError)
  /\ UNCHANGED <<jobVars, batchVars, isValid, inputs, segments, chunks, i,
                 attempt, allTranslatedSegments, response, translatedHTML,
                 requests, calls>>

\* faulty variant: the loop counter is not incremented
DirectRetrySameAttempt ==
  /\ pc = "direct_backoff"
  /\ attempt' = attempt
  /\ response' = <<>>
  /\ translatedHTML' = <<>>
  /\ pc' = "direct_call"
  /\ UNCHANGED <<jobVars, batchVars, isValid, outstanding, inputs, segments,
                 chunks, i, allTranslatedSegments, outcome, requests, calls,
                 sleeps>>

\* line 321 over: the next iteration of the loop, with fresh locals
DirectRetry ==
  /\ pc = "direct_backoff"
  /\ attempt' = attempt + 1
  /\ response' = <<>>
  /\ translatedHTML' = <<>>
  /\ pc' = "direct_call"
  /\ UNCHANGED <<jobVars, batchVars, isValid, outstanding, inputs, segments,
                 chunks, i, allTranslatedSegments, outcome, requests, calls,
                 sleeps>>

(* translateTextChunk, lines 113-171, called at line 225 for chunks[i] *)

\* line 118: the request is issued
ChunkCall ==
  /\ pc = "chunk_call"
  /\ requests' = requests + 1
  /\ outstanding' = outstanding + 1
  /\ calls' = Append(calls, i + 1)
  /\ pc' = "chunk_await"
  /\ UNCHANGED <<jobVars, batchVars, isValid, inputs, segments, chunks, i,
                 attempt, allTranslatedSegments, response, translatedHTML,
                 outcome, sleeps>>

\* lines 119-150: the response fails a check: sleep, then continue
ChunkReject ==
  /\ pc = "chunk_await"
  /\ outstanding' = outstanding - 1
  /\ \E r \in ChunkResponses(chunks[i + 1]) :
       /\ ~ChunkAccepted(r, chunks[i + 1], language)
       /\ response' = r
  /\ sleeps' = Append(sleeps, 2000 * attempt)
  /\ pc' = "chunk_backoff"
  /\ UNCHANGED <<jobVars, batchVars, isValid, inputs, segments, chunks, i,
                 attempt, allTranslatedSegments, translatedHTML, outcome,
                 requests, calls>>

\* faulty variant: no delay between two chunks
ChunkAcceptMoreNoDelay ==
  /\ pc = "chunk_await"
  /\ outstanding' = outstanding - 1
  /\ i < Len(chunks) - 1
  /\ \E r \in ChunkResponses(chunks[i + 1]) :
       /\ ChunkAccepted(r, chunks[i + 1], language)
       /\ response' = r
       /\ allTranslatedSegments' = allTranslatedSegments \o ChunkResult(r, chunks[i + 1])
  /\ sleeps' = sleeps
  /\ pc' = "chunk_gap"
  /\ UNCHANGED <<jobVars, batchVars, isValid, inputs, segments, chunks, i,
                 attempt, translatedHTML, outcome, requests, calls>>

\* lines 119-159, 226-230: the response is accepted and another chunk follows
ChunkAcceptMore ==
  /\ pc = "chunk_await"
  /\ outstanding' = outstanding - 1
  /\ i < Len(chunks) - 1
  /\ \E r \in ChunkResponses(chunks[i + 1]) :
       /\ ChunkAccepted(r, chunks[i + 1], language)
       /\ response' = r
       /\ allTranslatedSegments' = allTranslatedSegments \o ChunkResult(r, chunks[i + 1])
  /\ sleeps' = Append(sleeps, 500)
  /\ pc' = "chunk_gap"
  /\ UNCHANGED <<jobVars, batchVars, isValid, inputs, segments, chunks, i,
                 attempt, translatedHTML, outcome, requests, calls>>

\* lines 236-254: reassembly and the checks on the result
Finish(all) ==
  LET result == reassembleHTML(html, all)
  IN /\ translatedHTML' = result
     /\ outcome' =
          IF ~hasHTML(result)
          THEN Thrown("Chunked translation corrupted HTML structure", 0)
          ELSE IF lacksLanguageChars(result, language)
               THEN Thrown("No characters found in translated HTML", 0)
               ELSE Returned(result)

\* lines 119-159, 226, 236-254: the response for the last chunk is accepted
ChunkAcceptLast ==
  /\ pc = "chunk_await"
  /\ outstanding' = outstanding - 1
  /\ i = Len(chunks) - 1
  /\ \E r \in ChunkResponses(chunks[i + 1]) :
       /\ ChunkAccepted(r, chunks[i + 1], language)
       /\ response' = r
       /\ allTranslatedSegments' = allTranslatedSegments \o ChunkResult(r, chunks[i + 1])
       /\ Finish(allTranslatedSegments \o ChunkResult(r, chunks[i + 1]))
  /\ pc' = "done"
  /\ UNCHANGED <<jobVars, batchVars, isValid, inputs, segments, chunks, i,
                 attempt, requests, calls, sleeps>>

\* lines 161-167: generateContent throws
ChunkThrow ==
  /\ pc = "chunk_await"
  /\ outstanding' = outstanding - 1
  /\ IF attempt = maxRetries
     THEN /\ outcome' = Thrown(TransportError, 0)
          /\ pc' = "done"
          /\ UNCHANGED sleeps
     ELSE /\ sleeps' = Append(sleeps, 2000 * attempt)
          /\ pc' = "chunk_backoff"
          /\ UNCHANGED outcome
  /\ UNCHANGED <<jobVars, batchVars, isValid, inputs, segments, chunks, i,
                 attempt, allTranslatedSegments, response, translatedHTML,
                 requests, calls>>

\* faulty variant: the loop has no attempt ceiling
ChunkRetryUnbounded ==
  /\ pc = "chunk_backoff"
  /\ attempt' = attempt + 1
  /\ response' = <<>>
  /\ pc' = "chunk_call"
  /\ UNCHANGED <<jobVars, batchVars, isValid, outstanding, inputs, segments,
                 chunks, i, allTranslatedSegments, translatedHTML, outcome,
                 requests, calls, sleeps>>

\* the sleep is over and the loop has another iteration, with fresh locals
ChunkRetry ==
  /\ pc = "chunk_backoff"
  /\ attempt < maxRetries
  /\ attempt' = attempt + 1
  /\ response' = <<>>
  /\ pc' = "chunk_call"
  /\ UNCHANGED <<jobVars, batchVars, isValid, outstanding, inputs, segments,
                 chunks, i, allTranslatedSegments, translatedHTML, outcome,
                 requests, calls, sleeps>>

\* faulty variant: a chunk that failed is left untranslated and the loop
\* goes on
ChunkExhaustedSkips ==
  /\ pc = "chunk_backoff"
  /\ attempt = maxRetries
  /\ IF i < Len(chunks) - 1
     THEN pc' = "chunk_gap" /\ UNCHANGED outcome
     ELSE pc' = "done" /\ outcome' = Thrown("Failed to translate chunk", i + 1)
  /\ UNCHANGED <<jobVars, batchVars, isValid, outstanding, inputs, segments,
                 chunks, i, attempt, allTranslatedSegments, response,
                 translatedHTML, requests, calls, sleeps>>

\* line 170: the sleep is over and the loop has ended
ChunkExhausted ==
  /\ pc = "chunk_backoff"
  /\ attempt = maxRetries
  /\ outcome' = Thrown("Failed to translate chunk", i + 1)
  /\ pc' = "done"
  /\ UNCHANGED <<jobVars, batchVars, isValid, outstanding, inputs, segments,
                 chunks, i, attempt, allTranslatedSegments, response,
                 translatedHTML, requests, calls, sleeps>>

\* line 230 over: the next chunk
NextChunk ==
  /\ pc = "chunk_gap"
  /\ i' = i + 1
  /\ attempt' = 1
  /\ response' = <<>>
  /\ pc' = "chunk_call"
  /\ UNCHANGED <<jobVars, batchVars, isValid, outstanding, inputs, segments,
                 chunks, allTranslatedSegments, translatedHTML, outcome,
                 requests, calls, sleeps>>

Next ==
  \/ ConfigError \/ NoOpEnglish \/ StartDirect \/ NoSegments \/ StartChunked
  \/ DirectCall \/ DirectReturn \/ DirectInvalid \/ DirectThrow \/ DirectRetry
  \/ ChunkCall \/ ChunkReject \/ ChunkAcceptMore \/ ChunkAcceptLast \/ ChunkThrow
  \/ ChunkRetry \/ ChunkExhausted \/ NextChunk

Spec == Init /\ [][Next]_vars

\* steps that are the program's own, which the event loop runs: synchronous
\* code and the end of a sleep, from the first request on (and the starts
\* that need no extraction).  The other steps of Next after a request need
\* generateContent to settle, and no timer stands behind an awaited
\* generateContent call (lines 118, 291) to make it settle.
ProgramStep ==
  \/ ConfigError \/ NoOpEnglish \/ StartDirect
  \/ DirectCall \/ DirectRetry
  \/ ChunkCall \/ ChunkRetry \/ ChunkExhausted \/ NextChunk

SpecLive == Spec /\ WF_vars(ProgramStep)

\* Every generation request returns or throws in the end.  Each step that
\* settles a request is enabled exactly while the request is outstanding, and
\* each of them ends that, so fairness of the throwing steps says that no
\* request stays outstanding for ever, whichever way it settles.
RequestSettles == DirectThrow \/ ChunkThrow

SpecSettling == Spec /\ WF_vars(ProgramStep) /\ WF_vars(RequestSettles)

(***************************************************************************)
(* The specifications of the pure functions leave translateHTML idle       *)
(***************************************************************************)
Idle ==
  /\ apiKey = TRUE
  /\ language = "en"
  /\ i = 0
  /\ attempt = 0
  /\ allTranslatedSegments = <<>>
  /\ response = <<>>
  /\ outcome = Pending
  /\ requests = 0
  /\ calls = <<>>
  /\ sleeps = <<>>
  /\ outstanding = 0
  /\ isValid = FALSE
  /\ BatchIdle
  /\ JobIdle

idle == <<apiKey, language, i, attempt, allTranslatedSegments, response, outcome,
          requests, calls, sleeps, outstanding, isValid, batchVars, jobVars>>

(***************************************************************************)
(* SpecExtract: extractTextSegments, then reassembleHTML with every        *)
(* segment's own text, on any document of up to MaxFrags fragments         *)
(***************************************************************************)
MaxFrags == 5

Fragments ==
  { <<Ch("<")>>, <<Ch(">")>>, <<Latin(1)>>, <<Ch(" ")>>,
    OpenTag("script"), CloseTag("script"), OpenTag("code") }

Docs == {Norm(Flatten(fs)) : fs \in UNION {[1..k -> Fragments] : k \in 0..MaxFrags}}

InitExtract ==
  /\ html \in Docs
  /\ segments = <<>>
  /\ chunks = <<>>
  /\ translatedHTML = <<>>
  /\ maxChunkSize = ChunkBudget
  /\ pc = "input"
  /\ Idle

ExtractStep ==
  /\ pc = "input"
  /\ segments' = extractTextSegments(html)
  /\ pc' = "extracted"
  /\ UNCHANGED <<html, chunks, translatedHTML, maxChunkSize, idle>>

ReassembleUntranslated ==
  /\ pc = "extracted"
  /\ translatedHTML' =
       reassembleHTML(html, [k \in 1..Len(segments) |->
                               WithTranslation(segments[k], segments[k].text)])
  /\ pc' = "reassembled"
  /\ UNCHANGED <<html, segments, chunks, maxChunkSize, idle>>

NextExtract == ExtractStep \/ ReassembleUntranslated

SpecExtract == InitExtract /\ [][NextExtract]_vars

(***************************************************************************)
(* SpecChunks: createTextChunks on the segments of up to MaxSegs texts of  *)
(* up to MaxTextLen letters, with any budget up to MaxBudget               *)
(***************************************************************************)
MaxSegs == 4

MaxTextLen == 3

MaxBudget == 6

\* the document t1<p>t2<p>...<p>tn of the texts of the given lengths
RECURSIVE DocOfTexts(_)
DocOfTexts(lens) ==
  IF lens = <<>> THEN <<>>
  ELSE IF Len(lens) = 1 THEN <<Latin(lens[1])>>
       ELSE <<Latin(lens[1])>> \o ParTag \o DocOfTexts(Tail(lens))

InitChunks ==
  /\ \E lens \in UNION {[1..k -> 1..MaxTextLen] : k \in 0..MaxSegs} :
       /\ html = DocOfTexts(lens)
       /\ segments = extractTextSegments(html)
  /\ maxChunkSize \in 0..MaxBudget
  /\ chunks = <<>>
  /\ translatedHTML = <<>>
  /\ pc = "input"
  /\ Idle

ChunkStep ==
  /\ pc = "input"
  /\ chunks' = createTextChunks(segments, maxChunkSize)
  /\ pc' = "chunked"
  /\ UNCHANGED <<html, segments, translatedHTML, maxChunkSize, idle>>

NextChunks == ChunkStep

SpecChunks == InitChunks /\ [][NextChunks]_vars

(***************************************************************************)
(* SpecReassemble: reassembleHTML on the segments of up to MaxParts texts, *)
(* annotated with translations of any length and listed in any order       *)
(***************************************************************************)
MaxParts == 3

\* no translation, a shorter one, a longer one
Translations == {<<>>, <<Ch("CYR")>>, <<Ch("CYR"), Latin(2)>>}

Orders(n) == {f \in [1..n -> 1..n] : \A a, b \in 1..n : a # b => f[a] # f[b]}

\* what SpecReassemble leaves alone
reassembleIdle ==
  <<html, segments, chunks, maxChunkSize, apiKey, language, i, attempt, response,
    outcome, requests, calls, sleeps, outstanding, isValid, batchVars, jobVars>>

InitReassemble ==
  /\ \E lens \in UNION {[1..k -> 1..2] : k \in 0..MaxParts} :
       /\ html = DocOfTexts(lens)
       /\ segments = extractTextSegments(html)
  /\ maxChunkSize = ChunkBudget
  /\ chunks = <<>>
  /\ translatedHTML = <<>>
  /\ pc = "input"
  /\ Idle

\* the caller's list: every segment annotated, in the order the caller
\* collected them
Annotate ==
  /\ pc = "input"
  /\ \E perm \in Orders(Len(segments)) :
       \E ts \in [1..Len(segments) -> Translations] :
         allTranslatedSegments' =
           [k \in 1..Len(segments) |-> WithTranslation(segments[perm[k]], ts[k])]
  /\ pc' = "annotated"
  /\ UNCHANGED <<translatedHTML, reassembleIdle>>

\* lines 173-187: the list is copied before it is sorted
ReassembleAnnotated ==
  /\ pc = "annotated"
  /\ translatedHTML' = reassembleHTML(html, allTranslatedSegments)
  /\ allTranslatedSegments' = allTranslatedSegments
  /\ pc' = "reassembled"
  /\ UNCHANGED reassembleIdle

NextReassemble == Annotate \/ ReassembleAnnotated

SpecReassemble == InitReassemble /\ [][NextReassemble]_vars

(***************************************************************************)
(* SpecBatch: translateAllHTMLFiles on up to MaxFiles files, in its        *)
(* sequential form (lines 329-356) and its parallel form (lines 543-577).  *)
(* A call of translateHTML is one promise per file, which settles with one *)
(* of the results translateHTML has for that document.                     *)
(***************************************************************************)
MaxFiles == 3

\* the k-th file: a name and a path of k letters, a document with k letters
File(k) ==
  [filename |-> <<Latin(k)>>,
   originalPath |-> <<Ch("/"), Latin(k)>>,
   html |-> OpenTag("html") \o <<Latin(k)>> \o CloseTag("html")]

\* a document translateHTML may return for h: h with a translated text in it
Translation(h) == SubSeq(h, 1, 3) \o <<Ch("CYR")>> \o SubSeq(h, 4, Len(h))

\* how a call translateHTML(h, lang, vertical) may end
translateHTMLResults(h, lang, key) ==
  IF ~key THEN {Thrown("GEMINI_API_KEY not configured", 0)}
  ELSE IF lang = "en" THEN {Returned(h)}
  ELSE {Returned(Translation(h)), Thrown("Missing HTML structure", 0),
        Thrown(TransportError, 0)}

\* the promise of a translateHTML call
Unstarted == [state |-> "unstarted", html |-> <<>>, error |-> NoError]
Running == [state |-> "running", html |-> <<>>, error |-> NoError]
Settled(res) ==
  [state |-> IF res.kind = "returned" THEN "fulfilled" ELSE "rejected",
   html |-> res.html, error |-> res.error]

\* {filename: file.filename, originalPath: file.originalPath, html: translatedHTML}
TranslatedFile(file, translated) ==
  [filename |-> file.filename, originalPath |-> file.originalPath, html |-> translated]

BatchPending == [kind |-> "pending", files |-> <<>>, error |-> NoError]
BatchReturned(fs) == [kind |-> "returned", files |-> fs, error |-> NoError]
BatchThrown(e) == [kind |-> "thrown", files |-> <<>>, error |-> e]

\* the variables of translateHTML, which SpecBatch leaves alone
docVars == <<apiKey, html, language, segments, chunks, i, attempt,
             allTranslatedSegments, response, translatedHTML, outcome, requests,
             calls, sleeps, maxChunkSize, outstanding, isValid>>

InitBatch ==
  /\ apiKey \in BOOLEAN
  /\ language \in {"en", "ru"}
  /\ variant \in {"sequential", "parallel"}
  /\ \E n \in 0..MaxFiles : files = [k \in 1..n |-> File(k)]
  /\ tasks = [k \in 1..Len(files) |-> Unstarted]
  /\ results = <<>>
  /\ fileIndex = 0
  /\ order = <<>>
  /\ batch = BatchPending
  /\ pc = "batch_start"
  /\ html = <<>>
  /\ segments = <<>>
  /\ chunks = <<>>
  /\ i = 0
  /\ attempt = 0
  /\ allTranslatedSegments = <<>>
  /\ response = <<>>
  /\ translatedHTML = <<>>
  /\ outcome = Pending
  /\ requests = 0
  /\ calls = <<>>
  /\ sleeps = <<>>
  /\ maxChunkSize = ChunkBudget
  /\ outstanding = 0
  /\ isValid = FALSE
  /\ JobIdle

(* the sequential form, lines 329-356 *)

\* faulty variant: the calls for all remaining files are started together
SeqCallStartsAll ==
  /\ variant = "sequential"
  /\ pc \in {"batch_start", "batch_loop"}
  /\ fileIndex < Len(files)
  /\ tasks' = [k \in 1..Len(files) |-> IF k > fileIndex THEN Running ELSE tasks[k]]
  /\ pc' = "batch_await"
  /\ UNCHANGED <<jobVars, docVars, files, variant, results, fileIndex, order,
                 batch>>

\* lines 334-339: the call of translateHTML for files[i]
SeqCall ==
  /\ variant = "sequential"
  /\ pc \in {"batch_start", "batch_loop"}
  /\ fileIndex < Len(files)
  /\ tasks' = [tasks EXCEPT ![fileIndex + 1] = Running]
  /\ pc' = "batch_await"
  /\ UNCHANGED <<jobVars, docVars, files, variant, results, fileIndex, order,
                 batch>>

\* lines 339-347: translateHTML returned; the result is pushed
SeqFulfil ==
  /\ variant = "sequential"
  /\ pc = "batch_await"
  /\ \E res \in translateHTMLResults(files[fileIndex + 1].html, language, apiKey) :
       /\ res.kind = "returned"
       /\ tasks' = [tasks EXCEPT ![fileIndex + 1] = Settled(res)]
       /\ results' = Append(results, TranslatedFile(files[fileIndex + 1], res.html))
  /\ order' = Append(order, fileIndex + 1)
  /\ fileIndex' = fileIndex + 1
  /\ pc' = "batch_loop"
  /\ UNCHANGED <<jobVars, docVars, files, variant, batch>>

\* faulty variant: a file whose translation failed is left out and the loop
\* goes on
SeqRejectSkips ==
  /\ variant = "sequential"
  /\ pc = "batch_await"
  /\ \E res \in translateHTMLResults(files[fileIndex + 1].html, language, apiKey) :
       /\ res.kind = "thrown"
       /\ tasks' = [tasks EXCEPT ![fileIndex + 1] = Settled(res)]
  /\ order' = Append(order, fileIndex + 1)
  /\ fileIndex' = fileIndex + 1
  /\ pc' = "batch_loop"
  /\ UNCHANGED <<jobVars, docVars, files, variant, results, batch>>

\* lines 348-351: translateHTML threw; the error is thrown on
SeqReject ==
  /\ variant = "sequential"
  /\ pc = "batch_await"
  /\ \E res \in translateHTMLResults(files[fileIndex + 1].html, language, apiKey) :
       /\ res.kind = "thrown"
       /\ tasks' = [tasks EXCEPT ![fileIndex + 1] = Settled(res)]
       /\ batch' = BatchThrown(res.error)
  /\ order' = Append(order, fileIndex + 1)
  /\ pc' = "batch_done"
  /\ UNCHANGED <<jobVars, docVars, files, variant, results, fileIndex>>

\* lines 354-355: the loop is over
SeqReturn ==
  /\ variant = "sequential"
  /\ pc \in {"batch_start", "batch_loop"}
  /\ fileIndex = Len(files)
  /\ batch' = BatchReturned(results)
  /\ pc' = "batch_done"
  /\ UNCHANGED <<jobVars, docVars, files, variant, tasks, results, fileIndex,
                 order>>

(* the parallel form, lines 543-577 *)

\* lines 546-552, 570: files.map starts every call, then Promise.all is awaited
ParStart ==
  /\ variant = "parallel"
  /\ pc = "batch_start"
  /\ tasks' = [k \in 1..Len(files) |-> Running]
  /\ pc' = "batch_await"
  /\ UNCHANGED <<jobVars, docVars, files, variant, results, fileIndex, order,
                 batch>>

\* lines 552-562: the call for files[k] returned, whenever that is
ParFulfil(k) ==
  /\ variant = "parallel"
  /\ tasks[k].state = "running"
  /\ \E res \in translateHTMLResults(files[k].html, language, apiKey) :
       /\ res.kind = "returned"
       /\ tasks' = [tasks EXCEPT ![k] = Settled(res)]
  /\ order' = Append(order, k)
  /\ UNCHANGED <<jobVars, docVars, files, variant, results, fileIndex, batch,
                 pc>>

\* lines 563-566: the call for files[k] threw; its promise rejects with the error
ParReject(k) ==
  /\ variant = "parallel"
  /\ tasks[k].state = "running"
  /\ \E res \in translateHTMLResults(files[k].html, language, apiKey) :
       /\ res.kind = "thrown"
       /\ tasks' = [tasks EXCEPT ![k] = Settled(res)]
  /\ order' = Append(order, k)
  /\ UNCHANGED <<jobVars, docVars, files, variant, results, fileIndex, batch,
                 pc>>

\* faulty variant: the results in the order in which the calls settled
ParReturnInSettlingOrder ==
  /\ variant = "parallel"
  /\ pc = "batch_await"
  /\ \A k \in 1..Len(files) : tasks[k].state = "fulfilled"
  /\ batch' = BatchReturned([k \in 1..Len(files) |->
                               TranslatedFile(files[order[k]], tasks[order[k]].html)])
  /\ pc' = "batch_done"
  /\ UNCHANGED <<jobVars, docVars, files, variant, tasks, results, fileIndex,
                 order>>

\* lines 570-572: every promise fulfilled; Promise.all gives the values in the
\* order of the promises
ParReturn ==
  /\ variant = "parallel"
  /\ pc = "batch_await"
  /\ \A k \in 1..Len(files) : tasks[k].state = "fulfilled"
  /\ batch' = BatchReturned([k \in 1..Len(files) |->
                               TranslatedFile(files[k], tasks[k].html)])
  /\ pc' = "batch_done"
  /\ UNCHANGED <<jobVars, docVars, files, variant, tasks, results, fileIndex,
                 order>>

\* the first file whose call threw
FirstRejected ==
  order[Min({p \in 1..Len(order) : tasks[order[p]].state = "rejected"})]

\* lines 573-576: Promise.all rejected with the error of the first promise that
\* rejected; the error is thrown on
ParThrow ==
  /\ variant = "parallel"
  /\ pc = "batch_await"
  /\ \E k \in 1..Len(files) : tasks[k].state = "rejected"
  /\ batch' = BatchThrown(tasks[FirstRejected].error)
  /\ pc' = "batch_done"
  /\ UNCHANGED <<jobVars, docVars, files, variant, tasks, results, fileIndex,
                 order>>

NextBatch ==
  \/ SeqCall \/ SeqFulfil \/ SeqReject \/ SeqReturn
  \/ ParStart \/ ParReturn \/ ParThrow
  \/ \E k \in 1..Len(files) : ParFulfil(k)
  \/ \E k \in 1..Len(files) : ParReject(k)

SpecBatch == InitBatch /\ [][NextBatch]_vars

(***************************************************************************)
(* SpecValidated: one call of the validating translateHTML (lines 431-540),*)
(* an action per stretch between two awaits                                *)
(***************************************************************************)
ValidatedLanguages == {"en", "ru", "vi", "es"}

ValidatedDocs == {<<Latin(1)>>, OpenTag("html") \o <<Ch(" "), Latin(1)>> \o CloseTag("html")}

\* the variables of the chunked path, which this translateHTML does not have
chunkVars == <<segments, chunks, i, allTranslatedSegments, maxChunkSize>>

InitValidated ==
  /\ apiKey \in BOOLEAN
  /\ html \in ValidatedDocs
  /\ language \in ValidatedLanguages
  /\ pc = "start"
  /\ segments = <<>>
  /\ chunks = <<>>
  /\ i = 0
  /\ attempt = 0
  /\ allTranslatedSegments = <<>>
  /\ response = <<>>
  /\ translatedHTML = <<>>
  /\ outcome = Pending
  /\ requests = 0
  /\ calls = <<>>
  /\ sleeps = <<>>
  /\ maxChunkSize = ChunkBudget
  /\ outstanding = 0
  /\ isValid = FALSE
  /\ BatchIdle
  /\ JobIdle

\* lines 432-434
ValidatedConfigError ==
  /\ pc = "start" /\ ~apiKey
  /\ outcome' = Thrown("GEMINI_API_KEY not configured", 0)
  /\ pc' = "done"
  /\ UNCHANGED <<jobVars, batchVars, chunkVars, apiKey, html, language, attempt,
                 response, translatedHTML, isValid, requests, calls, sleeps,
                 outstanding>>

\* lines 436-438
ValidatedNoOpEnglish ==
  /\ pc = "start" /\ apiKey /\ language = "en"
  /\ outcome' = Returned(html)
  /\ pc' = "done"
  /\ UNCHANGED <<jobVars, batchVars, chunkVars, apiKey, html, language, attempt,
                 response, translatedHTML, isValid, requests, calls, sleeps,
                 outstanding>>

\* lines 441-477: the loop is entered
ValidatedStart ==
  /\ pc = "start" /\ apiKey /\ language # "en"
  /\ attempt' = 1
  /\ pc' = "validated_call"
  /\ UNCHANGED <<jobVars, batchVars, chunkVars, apiKey, html, language,
                 response, translatedHTML, isValid, outcome, requests, calls,
                 sleeps, outstanding>>

\* line 482: the request is issued
ValidatedCall ==
  /\ pc = "validated_call"
  /\ attempt <= maxRetries
  /\ requests' = requests + 1
  /\ outstanding' = outstanding + 1
  /\ calls' = Append(calls, 0)
  /\ pc' = "validated_await"
  /\ UNCHANGED <<jobVars, batchVars, chunkVars, apiKey, html, language, attempt,
                 response, translatedHTML, isValid, outcome, sleeps>>

\* lines 526-536: the catch block, entered with error message `message`
ValidatedCatch(message) ==
  IF attempt = maxRetries
  THEN /\ outcome' = Thrown("Translation API failed after 3 attempts: " \o message, 0)
       /\ pc' = "done"
       /\ UNCHANGED sleeps
  ELSE /\ sleeps' = Append(sleeps, 2000 * attempt)
       /\ pc' = "validated_backoff"
       /\ UNCHANGED outcome

\* lines 483-525: the cleaned response is valid and is returned
ValidatedReturn ==
  /\ pc = "validated_await"
  /\ outstanding' = outstanding - 1
  /\ \E r \in DirectResponses :
       /\ isValidTranslation(CleanResponse(r), language)
       /\ response' = r
       /\ translatedHTML' = CleanResponse(r)
       /\ outcome' = Returned(CleanResponse(r))
  /\ isValid' = TRUE
  /\ pc' = "done"
  /\ UNCHANGED <<jobVars, batchVars, chunkVars, apiKey, html, language, attempt,
                 requests, calls, sleeps>>

\* faulty variant: the last attempt's document is returned though it is not
\* valid
ValidatedInvalidKeepsLast ==
  /\ pc = "validated_await"
  /\ outstanding' = outstanding - 1
  /\ \E r \in DirectResponses :
       /\ ~isValidTranslation(CleanResponse(r), language)
       /\ response' = r
       /\ translatedHTML' = CleanResponse(r)
       /\ isValid' = FALSE
       /\ IF attempt < maxRetries
          THEN /\ sleeps' = Append(sleeps, 2000 * attempt)
               /\ pc' = "validated_backoff"
               /\ UNCHANGED outcome
          ELSE /\ outcome' = Returned(CleanResponse(r))
               /\ pc' = "done"
               /\ UNCHANGED sleeps
  /\ UNCHANGED <<jobVars, batchVars, chunkVars, apiKey, html, language, attempt,
                 requests, calls>>

\* lines 483-522, 526-531: the cleaned response is not valid: sleep and
\* continue, or on the last attempt throw into the catch block
ValidatedInvalid ==
  /\ pc = "validated_await"
  /\ outstanding' = outstanding - 1
  /\ \E r \in DirectResponses :
       /\ ~isValidTranslation(CleanResponse(r), language)
       /\ response' = r
       /\ translatedHTML' = CleanResponse(r)
       /\ isValid' = FALSE
       /\ IF attempt < maxRetries
          THEN /\ sleeps' = Append(sleeps, 2000 * attempt)
               /\ pc' = "validated_backoff"
               /\ UNCHANGED outcome
          ELSE ValidatedCatch("Translation validation failed after 3 attempts")
  /\ UNCHANGED <<jobVars, batchVars, chunkVars, apiKey, html, language, attempt,
                 requests, calls>>

\* lines 482-483, 526-536: generateContent (or response.text()) throws
ValidatedThrow ==
  /\ pc = "validated_await"
  /\ outstanding' = outstanding - 1
  /\ ValidatedCatch(TransportError)
  /\ UNCHANGED <<jobVars, batchVars, chunkVars, apiKey, html, language, attempt,
                 response, translatedHTML, isValid, requests, calls>>

\* lines 517-518, 535: the sleep is over; the next iteration, with fresh locals
ValidatedRetry ==
  /\ pc = "validated_backoff"
  /\ attempt' = attempt + 1
  /\ response' = <<>>
  /\ translatedHTML' = <<>>
  /\ isValid' = FALSE
  /\ pc' = "validated_call"
  /\ UNCHANGED <<jobVars, batchVars, chunkVars, apiKey, html, language, outcome,
                 requests, calls, sleeps, outstanding>>

NextValidated ==
  \/ ValidatedConfigError \/ ValidatedNoOpEnglish \/ ValidatedStart
  \/ ValidatedCall \/ ValidatedReturn \/ ValidatedInvalid \/ ValidatedThrow
  \/ ValidatedRetry

SpecValidated == InitValidated /\ [][NextValidated]_vars

(***************************************************************************)
(* SpecJob: processTranslationWithRetry (server.js, lines 49-68) around    *)
(* processTranslationJob, which completes or throws (translator.js)        *)
(***************************************************************************)
MaxJobAttempts == 10

\* the errors processTranslationJob throws (its catch rethrows, line 269)
JobErrors == {"Failed to download ZIP", "Database update failed"}

\* what SpecJob leaves alone
jobIdle ==
  <<html, segments, chunks, translatedHTML, maxChunkSize, apiKey, language, i,
    attempt, allTranslatedSegments, response, outcome, requests, calls, sleeps,
    outstanding, isValid, batchVars, workerVars>>

InitJob ==
  /\ html = <<>>
  /\ segments = <<>>
  /\ chunks = <<>>
  /\ translatedHTML = <<>>
  /\ maxChunkSize = ChunkBudget
  /\ pc = "job_loop"
  /\ Idle

\* lines 52-57: attempt++ and the call of processTranslationJob
JobBegin ==
  /\ pc = "job_loop"
  /\ jobAttempt < MaxJobAttempts
  /\ jobAttempt' = jobAttempt + 1
  /\ pc' = "job_await"
  /\ UNCHANGED <<jobDelays, jobLog, jobIdle>>

\* lines 57-59: processTranslationJob returns; break
JobCompletes ==
  /\ pc = "job_await"
  /\ jobLog' = Append(jobLog, "completed")
  /\ pc' = "job_done"
  /\ UNCHANGED <<jobAttempt, jobDelays, jobIdle>>

\* faulty variant: the delay without its ceiling
JobThrowsUncapped(error) ==
  /\ pc = "job_await"
  /\ jobLog' = Append(jobLog, error)
  /\ jobDelays' = Append(jobDelays, (2 ^ jobAttempt) * 1000)
  /\ pc' = "job_sleep"
  /\ UNCHANGED <<jobAttempt, jobIdle>>

\* lines 60-65: processTranslationJob throws `error`; the delay is computed
\* and the timer set
JobThrows(error) ==
  /\ pc = "job_await"
  /\ jobLog' = Append(jobLog, error)
  /\ jobDelays' = Append(jobDelays, Min({(2 ^ jobAttempt) * 1000, 300000}))
  /\ pc' = "job_sleep"
  /\ UNCHANGED <<jobAttempt, jobIdle>>

\* line 65 over: the timer fires, and the loop goes round
JobWakes ==
  /\ pc = "job_sleep"
  /\ pc' = "job_loop"
  /\ UNCHANGED <<jobAttempt, jobDelays, jobLog, jobIdle>>

NextJob ==
  \/ JobBegin \/ JobCompletes \/ JobWakes
  \/ \E error \in JobErrors : JobThrows(error)

SpecJob == InitJob /\ [][NextJob]_vars

\* the loop's own code and its timer run; whether processTranslationJob ever
\* settles is not the loop's doing
SpecJobLive == SpecJob /\ WF_vars(JobBegin) /\ WF_vars(JobWakes)

(***************************************************************************)
(* SpecWorker: POST /translate (server.js, lines 26-47), the retry loop    *)
(* it starts (lines 49-68) and processTranslationJob step by step          *)
(* (translator.js; src/unnamed/part_000), with the parallel                *)
(* translateAllHTMLFiles (gemini-translator.js, lines 543-577).  A status  *)
(* update is either applied by the database or comes back with an error.   *)
(* updateProgress writes no status and is left out.                        *)
(***************************************************************************)
MaxWorkerAttempts == 2
MaxJobFiles == 2

\* the fields the handler tests, in its order (line 29)
Required ==
  {"jobId", "projectId", "templateZipUrl", "processedHtmlFiles", "language"}

StringFields == Required \ {"processedHtmlFiles"}

\* the request bodies: a field is absent, or a string (empty or not), and
\* processedHtmlFiles, when present, is an array (here: its length)
FieldParts == UNION {[D -> {"", "v"}] : D \in SUBSET StringFields}

RequestBodies ==
  FieldParts \cup
  {part @@ ("processedHtmlFiles" :> n) : part \in FieldParts, n \in 0..MaxJobFiles}

\* !b[f]: undefined and the empty string are falsy, an array never is
Falsy(b, f) == f \notin DOMAIN b \/ (f \in StringFields /\ b[f] = "")

NoReply == [status |-> 0, received |-> FALSE, error |-> ""]

\* the number of files processTranslationJob has to translate
JobFiles ==
  IF "processedHtmlFiles" \in DOMAIN body THEN body["processedHtmlFiles"] ELSE 0

\* line 18 of part_000, line 92 of translator.js
NoFilesError ==
  IF worker = "part_000" THEN "No processed HTML files received from Vercel"
                         ELSE "No HTML files found in template ZIP"

\* what processTranslationJob can throw before it translates: part_000 tests
\* the files first (lines 17-19), translator.js after the download (line 91)
PrepareErrors ==
  IF worker = "part_000"
  THEN IF JobFiles = 0 THEN {NoFilesError} ELSE {"Failed to download ZIP"}
  ELSE {"Template not found", "Failed to download ZIP"} \cup
       (IF JobFiles = 0 THEN {NoFilesError} ELSE {})

\* one status update as issued
Write(table, status, message, applied) ==
  [table |-> table, status |-> status, error_message |-> message,
   attempt |-> jobAttempt, applied |-> applied]

\* what SpecWorker leaves alone
workerIdle ==
  <<html, segments, chunks, translatedHTML, maxChunkSize, apiKey, language, i,
    attempt, allTranslatedSegments, response, outcome, requests, calls, sleeps,
    outstanding, isValid, batchVars>>

InitWorker ==
  /\ html = <<>>
  /\ segments = <<>>
  /\ chunks = <<>>
  /\ translatedHTML = <<>>
  /\ maxChunkSize = ChunkBudget
  /\ apiKey = TRUE
  /\ language = "en"
  /\ i = 0
  /\ attempt = 0
  /\ allTranslatedSegments = <<>>
  /\ response = <<>>
  /\ outcome = Pending
  /\ requests = 0
  /\ calls = <<>>
  /\ sleeps = <<>>
  /\ outstanding = 0
  /\ isValid = FALSE
  /\ files = <<>>
  /\ variant = "parallel"
  /\ tasks = <<>>
  /\ results = <<>>
  /\ fileIndex = 0
  /\ order = <<>>
  /\ batch = [kind |-> "pending", files |-> <<>>,
              error |-> [message |-> "", chunk |-> 0]]
  /\ jobAttempt = 0
  /\ jobDelays = <<>>
  /\ jobLog = <<>>
  /\ body \in RequestBodies
  /\ reply = NoReply
  /\ loops = 0
  /\ worker \in {"translator.js", "part_000"}
  /\ live = <<>>
  /\ jobRequests = {}
  /\ decrements = <<>>
  /\ dbWrites = <<>>
  /\ jobError = ""
  /\ pc = "post"

\* faulty variant: the language is not among the fields tested
PostTranslateLenient ==
  /\ pc = "post"
  /\ IF \E f \in Required \ {"language"} : Falsy(body, f)
     THEN /\ reply' = [status |-> 400, received |-> FALSE,
                       error |-> "Missing required fields"]
          /\ loops' = loops
          /\ pc' = "post_done"
     ELSE /\ reply' = [status |-> 200, received |-> TRUE, error |-> ""]
          /\ loops' = loops + 1
          /\ pc' = "job_loop"
  /\ UNCHANGED <<jobAttempt, jobDelays, jobLog, body, worker, live, jobRequests,
                 decrements, dbWrites, jobError, workerIdle>>

\* server.js, lines 26-47: the 400 reply, or the acknowledgement followed
\* by the call of processTranslationWithRetry, which is not awaited
PostTranslate ==
  /\ pc = "post"
  /\ IF \E f \in Required : Falsy(body, f)
     THEN /\ reply' = [status |-> 400, received |-> FALSE,
                       error |-> "Missing required fields"]
          /\ loops' = loops
          /\ pc' = "post_done"
     ELSE /\ reply' = [status |-> 200, received |-> TRUE, error |-> ""]
          /\ loops' = loops + 1
          /\ pc' = "job_loop"
  /\ UNCHANGED <<jobAttempt, jobDelays, jobLog, body, worker, live, jobRequests,
                 decrements, dbWrites, jobError, workerIdle>>

\* server.js, lines 52-57: attempt++ and the call of processTranslationJob
WorkerBegin ==
  /\ pc = "job_loop"
  /\ jobAttempt < MaxWorkerAttempts
  /\ jobAttempt' = jobAttempt + 1
  /\ live' = Append(live, 0)
  /\ jobError' = ""
  /\ pc' = "job_prepare"
  /\ UNCHANGED <<jobDelays, jobLog, body, reply, loops, worker, jobRequests,
                 decrements, dbWrites, workerIdle>>

\* translator.js, lines 39, 49, 92; part_000, lines 18, 25: a throw before
\* the translation
PrepareThrows(error) ==
  /\ pc = "job_prepare"
  /\ error \in PrepareErrors
  /\ jobError' = error
  /\ pc' = "job_catch"
  /\ UNCHANGED <<jobAttempt, jobDelays, jobLog, body, reply, loops, worker, live,
                 jobRequests, decrements, dbWrites, workerIdle>>

\* translator.js, line 141; part_000, line 37, and gemini-translator.js,
\* lines 548-565: files.map starts one translateHTML call per file
TranslateStart ==
  /\ pc = "job_prepare"
  /\ JobFiles > 0
  /\ live' = [live EXCEPT ![jobAttempt] = JobFiles]
  /\ pc' = "job_translate"
  /\ UNCHANGED <<jobAttempt, jobDelays, jobLog, body, reply, loops, worker,
                 jobRequests, decrements, dbWrites, jobError, workerIdle>>

\* a running translateHTML call of attempt a issues a generateContent call
TaskRequests(a) ==
  /\ a \in 1..Len(live)
  /\ live[a] > 0
  /\ [by |-> a, during |-> jobAttempt] \notin jobRequests
  /\ jobRequests' = jobRequests \cup {[by |-> a, during |-> jobAttempt]}
  /\ UNCHANGED <<pc, jobAttempt, jobDelays, jobLog, body, reply, loops, worker,
                 live, decrements, dbWrites, jobError, workerIdle>>

\* a translateHTML call of attempt a returns
TaskFulfils(a) ==
  /\ a \in 1..Len(live)
  /\ live[a] > 0
  /\ live' = [live EXCEPT ![a] = live[a] - 1]
  /\ UNCHANGED <<pc, jobAttempt, jobDelays, jobLog, body, reply, loops, worker,
                 jobRequests, decrements, dbWrites, jobError, workerIdle>>

\* a translateHTML call of attempt a throws: Promise.all, when it is still
\* pending, rejects with the error (lines 567-576) and processTranslationJob
\* enters its catch block; the other calls are left running
TaskRejects(a) ==
  /\ a \in 1..Len(live)
  /\ live[a] > 0
  /\ live' = [live EXCEPT ![a] = live[a] - 1]
  /\ IF a = jobAttempt /\ pc = "job_translate"
     THEN jobError' = "Failed to translate chunk 1" /\ pc' = "job_catch"
     ELSE UNCHANGED <<jobError, pc>>
  /\ UNCHANGED <<jobAttempt, jobDelays, jobLog, body, reply, loops, worker,
                 jobRequests, decrements, dbWrites, workerIdle>>

\* gemini-translator.js, lines 568-571: every call has returned
TranslateReturns ==
  /\ pc = "job_translate"
  /\ live[jobAttempt] = 0
  /\ pc' = "job_upload"
  /\ UNCHANGED <<jobAttempt, jobDelays, jobLog, body, reply, loops, worker, live,
                 jobRequests, decrements, dbWrites, jobError, workerIdle>>

\* translator.js, line 207; part_000, line 103: put rejects
UploadThrows ==
  /\ pc = "job_upload"
  /\ jobError' = "Upload failed"
  /\ pc' = "job_catch"
  /\ UNCHANGED <<jobAttempt, jobDelays, jobLog, body, reply, loops, worker, live,
                 jobRequests, decrements, dbWrites, workerIdle>>

\* put returns the blob
UploadReturns ==
  /\ pc = "job_upload"
  /\ pc' = IF worker = "translator.js" THEN "job_credits" ELSE "job_project"
  /\ UNCHANGED <<jobAttempt, jobDelays, jobLog, body, reply, loops, worker, live,
                 jobRequests, decrements, dbWrites, jobError, workerIdle>>

\* translator.js, lines 216-218: decrement_pages; its result is not read
DecrementPages(applied) ==
  /\ pc = "job_credits"
  /\ decrements' = IF applied THEN Append(decrements, jobAttempt) ELSE decrements
  /\ pc' = "job_project"
  /\ UNCHANGED <<jobAttempt, jobDelays, jobLog, body, reply, loops, worker, live,
                 jobRequests, dbWrites, jobError, workerIdle>>

\* translator.js, lines 220-232; part_000, lines 112-124: the project is
\* marked completed, and an error of the update is thrown
ProjectUpdate(applied) ==
  /\ pc = "job_project"
  /\ dbWrites' = Append(dbWrites, Write("projects", "completed", "", applied))
  /\ IF applied
     THEN pc' = "job_queue" /\ UNCHANGED jobError
     ELSE jobError' = "Database update failed" /\ pc' = "job_catch"
  /\ UNCHANGED <<jobAttempt, jobDelays, jobLog, body, reply, loops, worker, live,
                 jobRequests, decrements, workerIdle>>

\* translator.js, lines 234-251; part_000, lines 126-143: the queue row is
\* marked completed, an error of the update is logged, and
\* processTranslationJob returns; server.js, lines 58-59: break
QueueUpdate(applied) ==
  /\ pc = "job_queue"
  /\ dbWrites' = Append(dbWrites,
                        Write("translation_queue", "completed", "", applied))
  /\ jobLog' = Append(jobLog, "completed")
  /\ pc' = "job_done"
  /\ UNCHANGED <<jobAttempt, jobDelays, body, reply, loops, worker, live,
                 jobRequests, decrements, jobError, workerIdle>>

\* faulty variant: the error is rethrown without the update
WorkerCatchUnmarked(applied) ==
  /\ pc = "job_catch"
  /\ jobLog' = Append(jobLog, jobError)
  /\ jobDelays' = Append(jobDelays, Min({(2 ^ jobAttempt) * 1000, 300000}))
  /\ pc' = "job_sleep"
  /\ UNCHANGED <<jobAttempt, body, reply, loops, worker, live, jobRequests,
                 decrements, dbWrites, jobError, workerIdle>>

\* translator.js, lines 252-270; part_000, lines 144-162: the queue row is
\* marked failed, whatever comes of the update, and the error is rethrown;
\* server.js, lines 60-65: the delay is computed and the timer set
WorkerCatch(applied) ==
  /\ pc = "job_catch"
  /\ dbWrites' = Append(dbWrites,
                        Write("translation_queue", "failed", jobError, applied))
  /\ jobLog' = Append(jobLog, jobError)
  /\ jobDelays' = Append(jobDelays, Min({(2 ^ jobAttempt) * 1000, 300000}))
  /\ pc' = "job_sleep"
  /\ UNCHANGED <<jobAttempt, body, reply, loops, worker, live, jobRequests,
                 decrements, jobError, workerIdle>>

\* server.js, line 65 over: the timer fires, and the loop goes round
WorkerWakes ==
  /\ pc = "job_sleep"
  /\ pc' = "job_loop"
  /\ UNCHANGED <<jobAttempt, jobDelays, jobLog, body, reply, loops, worker, live,
                 jobRequests, decrements, dbWrites, jobError, workerIdle>>

NextWorker ==
  \/ PostTranslate
  \/ WorkerBegin
  \/ \E error \in PrepareErrors : PrepareThrows(error)
  \/ TranslateStart
  \/ \E a \in 1..MaxWorkerAttempts : TaskRequests(a)
  \/ \E a \in 1..MaxWorkerAttempts : TaskFulfils(a)
  \/ \E a \in 1..MaxWorkerAttempts : TaskRejects(a)
  \/ TranslateReturns
  \/ UploadThrows
  \/ UploadReturns
  \/ \E applied \in BOOLEAN : DecrementPages(applied)
  \/ \E applied \in BOOLEAN : ProjectUpdate(applied)
  \/ \E applied \in BOOLEAN : QueueUpdate(applied)
  \/ \E applied \in BOOLEAN : WorkerCatch(applied)
  \/ WorkerWakes

SpecWorker == InitWorker /\ [][NextWorker]_vars

(***************************************************************************)
(* Properties                                                              *)
(***************************************************************************)

\* the code units [from, to) of a piece with index k
PieceFrom(h, k) == Offset(h, k)
PieceTo(h, k) == Offset(h, k) + h[k].n

\* C2: extractTextSegments returns segments in strictly ascending start order
\* that do not overlap, each with 0 <= start < end <= html.length and
\* html.slice(start, end) = text; writing the texts back at their offsets
\* gives the document again.
C2_SegmentsOrderedExact ==
  pc \in {"extracted", "reassembled"} =>
    /\ \A k \in 1..Len(segments) :
         /\ 0 <= segments[k].start
         /\ segments[k].start < segments[k].end
         /\ segments[k].end <= StrLen(html)
         /\ Slice(html, segments[k].start, segments[k].end) = segments[k].text
    /\ \A k \in 1..(Len(segments) - 1) :
         /\ segments[k].start < segments[k + 1].start
         /\ segments[k].end <= segments[k + 1].start
    /\ pc = "reassembled" => translatedHTML = html

\* C2 witness: two segments with a skipped script block around them
C2_Witness ==
  /\ pc = "reassembled"
  /\ Len(segments) = 2
  /\ segments[1].end < segments[2].start
  /\ Includes(html, OpenTag("script"))

\* How a reader of HTML sees the document from index p on, in text: a "<" with
\* a letter or "/" after it opens a tag, which ends at the next ">"; the tag
\* <script>, <style>, <code> or <pre> (alone or with attributes) opens a block
\* that its first close tag closes.  The set holds the indices of the pieces
\* strictly inside the closed blocks.
RECURSIVE ClosedBlockContent(_, _)
ClosedBlockContent(h, p) ==
  IF p > Len(h) THEN {}
  ELSE IF /\ h[p].c = "<" /\ p + 1 <= Len(h)
          /\ h[p + 1].c \in NonTranslatable \cup {"a", "html", "/"}
       THEN LET q == FirstIndex(h, p + 1, ">")
                R == {r \in (q + 1)..Len(h) : CloseTagAt(h, r, h[p + 1].c)}
            IN IF q = 0 THEN {}
               ELSE IF h[p + 1].c \in NonTranslatable /\ (q = p + 2 \/ IsSpace(h[p + 2].c))
                    THEN IF R = {} THEN {}
                         ELSE ((q + 1)..(Min(R) - 1)) \cup ClosedBlockContent(h, Min(R) + 4)
                    ELSE ClosedBlockContent(h, q + 1)
       ELSE ClosedBlockContent(h, p + 1)

\* C3: no character inside a closed script, style, code or pre block lies in
\* the range [start, end) of a segment extractTextSegments returns.
C3_NoSegmentInsideBlock ==
  pc \in {"extracted", "reassembled"} =>
    \A b \in ClosedBlockContent(html, 1) : \A k \in 1..Len(segments) :
      ~(segments[k].start < PieceTo(html, b) /\ PieceFrom(html, b) < segments[k].end)

\* C4: when every segment's translatedText is its own text, reassembleHTML
\* returns the document it was given.
C4_UntranslatedReassemblyIsIdentity ==
  pc = "reassembled" => translatedHTML = html

\* C4 witness: a document with two segments of different lengths, reassembled
C4_Witness ==
  /\ pc = "reassembled"
  /\ Len(segments) = 2
  /\ StrLen(segments[1].text) # StrLen(segments[2].text)

\* translateHTML took the chunked path and every chunk was accepted, so that
\* reassembleHTML ran on allTranslatedSegments
Reassembled ==
  /\ pc = "done"
  /\ segments # <<>>
  /\ Len(allTranslatedSegments) = Len(segments)

\* the original between the segments: before the first (k = 0), between the
\* k-th and the next, after the last (k = Len(segs))
Outside(h, segs, k) ==
  Slice(h, IF k = 0 THEN 0 ELSE segs[k].end,
           IF k = Len(segs) THEN StrLen(h) ELSE segs[k + 1].start)

\* the original outside the segments with the translated texts in between
RECURSIVE Interleaved(_, _, _, _)
Interleaved(h, segs, all, k) ==
  IF k > Len(segs) THEN <<>>
  ELSE all[k].translatedText \o Outside(h, segs, k) \o Interleaved(h, segs, all, k + 1)

\* C1: on the chunked path the reassembled document is the original with every
\* segment range replaced by that segment's translated text: what lies before
\* the first segment, between two segments and after the last is unchanged and
\* in the same order, whatever the lengths of the translated texts.
C1_OnlySegmentRangesChange ==
  Reassembled =>
    translatedHTML =
      Norm(Outside(html, segments, 0) \o Interleaved(html, segments, allTranslatedSegments, 1))

\* C1 witness: two chunks, the first translation shorter than its segment
C1_Witness ==
  /\ Reassembled
  /\ Len(chunks) = 2
  /\ outcome.kind = "returned"
  /\ StrLen(allTranslatedSegments[1].translatedText) < StrLen(segments[1].text)
  /\ translatedHTML # html

\* the concatenation of the chunks
RECURSIVE ConcatChunks(_)
ConcatChunks(cs) == IF cs = <<>> THEN <<>> ELSE Head(cs) \o ConcatChunks(Tail(cs))

\* the combined text length of a chunk
RECURSIVE ChunkSize(_)
ChunkSize(chunk) ==
  IF chunk = <<>> THEN 0 ELSE StrLen(Head(chunk).text) + ChunkSize(Tail(chunk))

\* C5: the chunks createTextChunks returns, concatenated in order, are the
\* input segment sequence, and none of them is empty.
C5_ChunksPartitionSegments ==
  pc = "chunked" =>
    /\ ConcatChunks(chunks) = segments
    /\ \A c \in 1..Len(chunks) : chunks[c] # <<>>

\* C5 witness: three chunks, one of them with two segments
C5_Witness ==
  /\ pc = "chunked"
  /\ Len(chunks) = 3
  /\ \E c \in 1..Len(chunks) : Len(chunks[c]) = 2

\* C6: every chunk is within the budget or is one segment alone, and a chunk
\* is closed exactly when the next segment would exceed the budget: the
\* segment that starts the next chunk did not fit, and every segment inside a
\* chunk did.
C6_GreedyWithinBudget ==
  pc = "chunked" =>
    /\ \A c \in 1..Len(chunks) :
         ChunkSize(chunks[c]) <= maxChunkSize \/ Len(chunks[c]) = 1
    /\ \A c \in 1..(Len(chunks) - 1) :
         ChunkSize(chunks[c]) + StrLen(chunks[c + 1][1].text) > maxChunkSize
    /\ \A c \in 1..Len(chunks) : \A k \in 2..Len(chunks[c]) :
         ChunkSize(SubSeq(chunks[c], 1, k)) <= maxChunkSize

\* C6 witness: a chunk that fills the budget exactly, a segment longer than
\* the budget alone in another
C6_Witness ==
  /\ pc = "chunked"
  /\ \E c \in 1..Len(chunks) : Len(chunks[c]) >= 2 /\ ChunkSize(chunks[c]) = maxChunkSize
  /\ \E c \in 1..Len(chunks) : ChunkSize(chunks[c]) > maxChunkSize

\* C7 as claimed: translateHTML with language "en" returns html unchanged,
\* whatever its length, without a request and without an error.
C7_EnglishAlwaysReturnsInput ==
  (pc = "done" /\ language = "en") =>
    /\ outcome = Returned(html)
    /\ requests = 0

\* C7 amended: with GEMINI_API_KEY configured, translateHTML with language
\* "en" ends at once, returns html unchanged, whatever its length, and has
\* issued no request and slept for no delay.
C7_EnglishReturnsInputWhenConfigured ==
  (language = "en" /\ apiKey) =>
    /\ pc \in {"start", "done"}
    /\ requests = 0
    /\ sleeps = <<>>
    /\ pc = "done" => outcome = Returned(html)

\* C7 witness: a document above the threshold with blank ends, returned for "en"
C7_Witness ==
  /\ pc = "done" /\ language = "en" /\ apiKey
  /\ StrLen(html) > CHUNK_THRESHOLD
  /\ Trim(html) # html
  /\ outcome.kind = "returned"

\* translateHTML took the direct path
DirectPath == language # "en" /\ apiKey /\ StrLen(html) <= CHUNK_THRESHOLD

\* C8: translateHTMLDirect returns a document only if the cleaned response has
\* the opening and closing html tag, is at least 200 long and, for a strict
\* language, holds a character of its pattern.
C8_DirectReturnsOnlyValid ==
  (pc = "done" /\ DirectPath /\ outcome.kind = "returned") =>
    isValidTranslation(outcome.html, language)

\* C9: the chunked path returns a reassembled document only if it passes the
\* same three checks.
C9_ChunkedReturnsOnlyValid ==
  (Reassembled /\ outcome.kind = "returned") =>
    isValidTranslation(outcome.html, language)

\* translateTextChunk has just returned for chunks[i + 1] with `response`
ChunkJustAccepted == pc = "chunk_gap" \/ (Reassembled /\ i = Len(chunks) - 1)

\* C10: translateTextChunk returns from an attempt only if the map parsed from
\* that attempt's response has at least 80% as many entries as the chunk has
\* segments and, for ru, ar, zh, ja, ko, he, th, hi, el, a parsed value holds
\* a character of the language's pattern.
C10_AcceptedOnlyIfCoveredAndInLanguage ==
  ChunkJustAccepted =>
    LET map == ParseResponse(response)
    IN /\ 10 * Cardinality(DOMAIN map) >= 8 * Len(chunks[i + 1])
       /\ language \in {"ru", "ar", "zh", "ja", "ko", "he", "th", "hi", "el"} =>
            \E x \in DOMAIN map : PatternTest(language, map[x])

\* C10 witness: a chunk of two segments accepted for ru with one Cyrillic and
\* one Latin value
C10_Witness ==
  /\ ChunkJustAccepted
  /\ language = "ru"
  /\ Len(chunks[i + 1]) = 2
  /\ \E x \in DOMAIN ParseResponse(response) : ~PatternTest("ru", ParseResponse(response)[x])

\* the number of generateContent calls issued for the chunk with number c
CallsFor(c) == Cardinality({k \in 1..Len(calls) : calls[k] = c})

\* an attempt for chunks[i + 1] ends in this step without being accepted
AttemptFails == pc = "chunk_await" /\ allTranslatedSegments' = allTranslatedSegments

\* C11: translateTextChunk issues at most 3 requests for one chunk; a first or
\* second attempt that is rejected or whose request throws is followed by a
\* backoff and another request for the same chunk; a third failed attempt ends
\* translateHTML with an error and no further request is issued.
C11_AtMostThreeAttemptsPerChunk ==
  /\ [](\A c \in 1..Len(chunks) : CallsFor(c) <= 3)
  /\ [][(AttemptFails /\ CallsFor(i + 1) < 3) =>
          (pc' = "chunk_backoff" /\ outcome' = Pending /\ i' = i)]_vars
  /\ [][(pc = "chunk_backoff" /\ CallsFor(i + 1) < 3) =>
          (pc' = "chunk_call" /\ outcome' = Pending /\ i' = i)]_vars
  /\ [][(pc = "chunk_call") => calls' = Append(calls, i + 1)]_vars
  /\ [][(AttemptFails /\ CallsFor(i + 1) = 3) =>
          (calls' = calls /\ (pc' = "chunk_backoff" \/ outcome'.kind = "thrown"))]_vars
  /\ [][(pc = "chunk_backoff" /\ CallsFor(i + 1) = 3) =>
          (calls' = calls /\ pc' = "done" /\ outcome'.kind = "thrown")]_vars
  /\ [](pc = "done" => ~ENABLED Next)

\* C11 witness: the first chunk accepted at its second attempt, the second
\* chunk failed after three
C11_Witness ==
  /\ pc = "done"
  /\ outcome.kind = "thrown"
  /\ CallsFor(1) = 2
  /\ CallsFor(2) = 3
  /\ Len(calls) = 5

\* translateTextChunk threw for chunks[i + 1]: translateHTML ended with an error
\* before every chunk was accepted
ChunkFailed ==
  /\ pc = "done"
  /\ outcome.kind = "thrown"
  /\ chunks # <<>>
  /\ Len(allTranslatedSegments) < Len(segments)

\* C12: whenever translateTextChunk fails terminally, after three rejected
\* responses or after three thrown requests, the error it throws is the
\* exhaustion error naming the chunk, never the error of the request itself.
C12_ChunkFailureNamesChunk ==
  ChunkFailed =>
    /\ outcome.error.message = "Failed to translate chunk"
    /\ outcome.error.chunk = i + 1

\* what translateTextChunk has just returned for chunks[i + 1]
JustReturned ==
  SubSeq(allTranslatedSegments,
         Len(allTranslatedSegments) - Len(chunks[i + 1]) + 1, Len(allTranslatedSegments))

\* the segment without its annotation
Plain(seg) ==
  [start |-> seg.start, end |-> seg.end, text |-> seg.text,
   isTranslatable |-> seg.isTranslatable]

\* the returned segments are the input segments, in order, each with one more
\* field
SameSegments ==
  /\ Len(JustReturned) = Len(chunks[i + 1])
  /\ \A k \in 1..Len(JustReturned) :
       /\ DOMAIN JustReturned[k] = DOMAIN chunks[i + 1][k] \cup {"translatedText"}
       /\ Plain(JustReturned[k]) = chunks[i + 1][k]

\* C13 as claimed: an accepted chunk returns its input segments in order with
\* start, end and text unchanged, each with translatedText the parsed value of
\* its index when the parsed map has the index, and its own text when not.
C13_ParsedValueOrOriginal ==
  ChunkJustAccepted =>
    LET map == ParseResponse(response)
    IN /\ SameSegments
       /\ \A k \in 1..Len(JustReturned) :
            JustReturned[k].translatedText =
              IF (k - 1) \in DOMAIN map THEN map[k - 1] ELSE chunks[i + 1][k].text

\* C13 amended: ... translatedText is the parsed value of its index when the
\* parsed map has the index with a value that is not the empty string, and the
\* segment's own text when the index is missing or its value is empty.
C13_NonEmptyParsedValueOrOriginal ==
  ChunkJustAccepted =>
    LET map == ParseResponse(response)
    IN /\ SameSegments
       /\ \A k \in 1..Len(JustReturned) :
            JustReturned[k].translatedText =
              IF (k - 1) \in DOMAIN map /\ StrLen(map[k - 1]) > 0
              THEN map[k - 1] ELSE chunks[i + 1][k].text

\* C13 witness: the second chunk accepted with two segments, the first with a
\* parsed value that differs from its text, the second missing from the map
C13_Witness ==
  /\ ChunkJustAccepted
  /\ i = 1
  /\ Len(chunks[i + 1]) = 2
  /\ 0 \in DOMAIN ParseResponse(response)
  /\ 1 \notin DOMAIN ParseResponse(response)
  /\ JustReturned[1].translatedText # chunks[i + 1][1].text
  /\ JustReturned[2].translatedText = chunks[i + 1][2].text

\* translateHTMLDirect is running
InDirect == pc \in {"direct_call", "direct_await", "direct_backoff"}

\* the loop over the chunks is running
InChunked == pc \in {"chunk_call", "chunk_await", "chunk_backoff", "chunk_gap"}

\* C14: for a language other than "en" (and past the configuration check)
\* translateHTML takes the direct path exactly when html.length <= 15000,
\* 15000 itself included, and extracts, chunks, translates chunk by chunk and
\* reassembles exactly when html.length > 15000; no document has requests of
\* both kinds.
C14_PathByLength ==
  /\ InDirect => (language # "en" /\ StrLen(html) <= 15000)
  /\ (InChunked \/ segments # <<>> \/ chunks # <<>> \/ allTranslatedSegments # <<>>) =>
       (language # "en" /\ StrLen(html) > 15000)
  /\ \A k \in 1..Len(calls) : (calls[k] = 0) <=> (StrLen(html) <= 15000)
  /\ (pc = "done" /\ language # "en" /\ apiKey) =>
       IF StrLen(html) <= 15000
       THEN calls # <<>> /\ segments = <<>> /\ chunks = <<>>
       ELSE /\ segments = extractTextSegments(html)
            /\ segments # <<>> => (chunks # <<>> /\ calls # <<>>)
            /\ outcome.kind = "returned" =>
                 outcome.html = reassembleHTML(html, allTranslatedSegments)

\* C14 witness: a document of exactly 15000 code units with text in it,
\* returned by the direct path after one request
C14_Witness ==
  /\ pc = "done"
  /\ language # "en"
  /\ StrLen(html) = 15000
  /\ extractTextSegments(html) # <<>>
  /\ calls = <<0>>
  /\ outcome.kind = "returned"

\* the number of chunks translateTextChunk has returned for
AcceptedChunks ==
  Cardinality({c \in 1..Len(chunks) :
                 Len(ConcatChunks(SubSeq(chunks, 1, c))) <= Len(allTranslatedSegments)})

\* the number of sleep(500) calls
Gaps == Cardinality({k \in 1..Len(sleeps) : sleeps[k] = 500})

\* C15: the chunks of a document are translated one after the other in
\* document order: the requests go to chunk 1, then 2, ... without going back
\* or skipping, a request for a chunk is issued only when every chunk before
\* it has been accepted, at most one request is outstanding, and sleep(500)
\* runs after every accepted chunk but the last, before the next chunk's
\* first request.
C15_ChunksSequentialInOrder ==
  /\ [](outstanding \in {0, 1})
  /\ []((InChunked \/ Reassembled) =>
         /\ \A k \in 1..Len(calls) :
              calls[k] = (IF k = 1 THEN 1 ELSE calls[k - 1])
                \/ (k > 1 /\ calls[k] = calls[k - 1] + 1)
         /\ calls # <<>> => AcceptedChunks >= calls[Len(calls)] - 1
         /\ \A k \in 1..Len(allTranslatedSegments) :
              Plain(allTranslatedSegments[k]) = segments[k]
         /\ Gaps = IF AcceptedChunks = Len(chunks) THEN Len(chunks) - 1
                   ELSE AcceptedChunks)
  /\ [][(InChunked /\ Len(calls') > Len(calls) /\ calls # <<>>
            /\ calls'[Len(calls')] # calls[Len(calls)]) =>
          sleeps[Len(sleeps)] = 500]_vars

\* C15 witness: two chunks, the first accepted at its second attempt, then
\* the delay, then the second accepted
C15_Witness ==
  /\ Reassembled
  /\ calls = <<1, 1, 2>>
  /\ sleeps = <<2000, 500>>
  /\ outstanding = 0

\* every call of translateHTML of the batch returned
AllFulfilled == \A k \in 1..Len(files) : tasks[k].state = "fulfilled"

\* the files whose call of translateHTML threw
Failed == {k \in 1..Len(files) : tasks[k].state = "rejected"}

\* C16: when every document translates successfully, translateAllHTMLFiles
\* returns as many results as there are files, in the order of the files
\* whatever the order in which the calls settled, the k-th with the k-th
\* file's filename and originalPath and the html translateHTML returned for
\* that file.
C16_ResultsInInputOrder ==
  (AllFulfilled /\ batch.kind # "pending") =>
    /\ batch.kind = "returned"
    /\ Len(batch.files) = Len(files)
    /\ \A k \in 1..Len(files) :
         /\ batch.files[k].filename = files[k].filename
         /\ batch.files[k].originalPath = files[k].originalPath
         /\ batch.files[k].html = tasks[k].html
         /\ Returned(batch.files[k].html) \in
              translateHTMLResults(files[k].html, language, apiKey)

\* C16 witness: three files translated in parallel, the last one first
C16_Witness ==
  /\ batch.kind = "returned"
  /\ variant = "parallel"
  /\ language = "ru"
  /\ Len(files) = 3
  /\ order = <<3, 1, 2>>

\* the error names the file: it carries the file's name
Identifies(e, file) ==
  \/ "filename" \in DOMAIN e /\ e.filename = file.filename
  \/ "filenames" \in DOMAIN e /\ file.filename \in e.filenames

\* C17: when documents fail, the error translateAllHTMLFiles throws names
\* every file that failed.
C17_ErrorNamesFailedFiles ==
  batch.kind = "thrown" =>
    \A k \in Failed : Identifies(batch.error, files[k])

\* C18: translateAllHTMLFiles returns a result for every file, each the result
\* of that file's own translation, or throws; once a document has failed it
\* throws, and no returned list leaves a file out.
C18_AllOrNothing ==
  /\ pc = "batch_done" => batch.kind \in {"returned", "thrown"}
  /\ batch.kind = "returned" =>
       /\ Failed = {}
       /\ Len(batch.files) = Len(files)
       /\ \A k \in 1..Len(files) :
            /\ tasks[k].state = "fulfilled"
            /\ batch.files[k] = TranslatedFile(files[k], tasks[k].html)
  /\ (pc = "batch_done" /\ Failed # {}) =>
       /\ batch.kind = "thrown"
       /\ batch.files = <<>>
       /\ \E k \in Failed : batch.error = tasks[k].error

\* C18 witness: of three files the first translated, the second failed, and
\* the batch threw
C18_Witness ==
  /\ pc = "batch_done"
  /\ Len(files) = 3
  /\ tasks[1].state = "fulfilled"
  /\ tasks[2].state = "rejected"
  /\ batch.kind = "thrown"

\* C19: a request that never responds does not stall the translation: every
\* generateContent call is bounded in time, so that whenever a call is
\* outstanding, translateHTML returns or throws in the end.
C19_EveryTranslationEnds == (outstanding > 0) ~> (pc = "done")

\* the document begins with <!DOCTYPE or with <html
BeginsWithOpeningTag(x) ==
  \/ StartsWith(x, <<Ch("<"), [c |-> "!DOCTYPE", n |-> 8]>>)
  \/ StartsWith(x, <<Ch("<"), Kw("html")>>)

\* the document ends with </html>
EndsWithClosingTag(x) ==
  Len(x) >= 4 /\ SubSeq(x, Len(x) - 3, Len(x)) = CloseTag("html")

\* C20: a document the direct path returns has nothing before its opening tag,
\* with or without a DOCTYPE in the response, and nothing after its last
\* closing html tag.
C20_ReturnedDocumentIsBare ==
  (pc = "done" /\ DirectPath /\ outcome.kind = "returned") =>
    /\ BeginsWithOpeningTag(outcome.html)
    /\ EndsWithClosingTag(outcome.html)

\* x with every Cyrillic character replaced by a Latin letter
Respelled(x) ==
  Norm([k \in 1..Len(x) |-> IF x[k].c = "CYR" THEN Latin(x[k].n) ELSE x[k]])

\* a response has been received and cleaned up in this attempt
Received == response # <<>>

\* C21: isValidTranslation is true exactly when the document holds "<html" and
\* "</html>", has at least 200 characters and, for a language of ru, ar, zh,
\* ja, ko, he, th, hi, el only, holds a character of the language's pattern;
\* for any other language (vi too) respelling the document in another script
\* does not change the outcome.
C21_ValidExactlyWhenThreeChecksHold ==
  Received =>
    /\ isValid =
         (/\ Includes(translatedHTML, <<Ch("<"), Kw("html")>>)
          /\ Includes(translatedHTML, CloseTag("html"))
          /\ StrLen(translatedHTML) >= 200
          /\ (language \in {"ru", "ar", "zh", "ja", "ko", "he", "th", "hi", "el"}
                => PatternTest(language, translatedHTML)))
    /\ (language \in {"vi", "es"} =>
          isValidTranslation(Respelled(translatedHTML), language) = isValid)

\* a document without any Vietnamese-range character is valid for vi
C21_Witness ==
  /\ pc = "done"
  /\ language = "vi"
  /\ isValid
  /\ ~PatternTest("vi", translatedHTML)

\* C22: the validating translateHTML issues at most 3 requests for a document;
\* a first or second attempt that fails, by validation or by a thrown
\* request, is followed by a sleep and the next attempt; a document returned
\* for a language other than "en" is the cleaned response and is valid; the
\* third failed attempt ends the call with an error, and no call with a
\* credential fails earlier.
C22_ValidatedRetriesThenFails ==
  /\ [](/\ requests <= 3
        /\ (pc = "done" /\ outcome.kind = "returned" /\ language # "en") =>
              /\ outcome.html = CleanResponse(response)
              /\ isValidTranslation(outcome.html, language)
        /\ (pc = "done" /\ outcome.kind = "thrown" /\ apiKey) => requests = 3)
  /\ [][/\ (pc = "validated_await" /\ attempt < 3 /\ outcome'.kind # "returned") =>
             pc' = "validated_backoff"
        /\ pc = "validated_backoff" =>
             (pc' = "validated_call" /\ attempt' = attempt + 1 /\ attempt' <= 3)
        /\ (pc = "validated_await" /\ attempt = 3 /\ outcome'.kind # "returned") =>
             (pc' = "done" /\ outcome'.kind = "thrown")]_vars

\* two failed attempts with their sleeps, then a third response that is not
\* valid either, and the call has failed
C22_Witness ==
  /\ pc = "done"
  /\ outcome.kind = "thrown"
  /\ requests = 3
  /\ sleeps = <<2000, 4000>>
  /\ Received /\ ~isValid

\* the indices of the open tags <script>, <style>, <code>, <pre> of h that no
\* close tag of the same name follows
UnclosedOpenTags(h) ==
  {p \in 1..(Len(h) - 2) :
     /\ h[p].c = "<" /\ h[p + 1].c \in NonTranslatable /\ h[p + 2].c = ">"
     /\ \A r \in (p + 3)..Len(h) : ~CloseTagAt(h, r, h[p + 1].c)}

\* C23: an open tag of a script, style, code or pre container without a
\* matching close tag consumes to the end of the document: no segment starts
\* after it.
C23_UnclosedContainerConsumesToEnd ==
  pc \in {"extracted", "reassembled"} =>
    \A p \in UnclosedOpenTags(html) : \A k \in 1..Len(segments) :
      segments[k].start < PieceFrom(html, p)

\* The indices of the pieces a reader of HTML takes as text from index p on:
\* a "<" with a letter or "/" after it opens a tag, which ends at the next
\* ">"; the tag <script>, <style>, <code> or <pre> opens a block that its
\* first close tag closes; every other piece is text.
RECURSIVE TextPieces(_, _)
TextPieces(h, p) ==
  IF p > Len(h) THEN {}
  ELSE IF /\ h[p].c = "<" /\ p + 1 <= Len(h)
          /\ h[p + 1].c \in NonTranslatable \cup {"a", "html", "/"}
       THEN LET q == FirstIndex(h, p + 1, ">")
                R == {r \in (q + 1)..Len(h) : CloseTagAt(h, r, h[p + 1].c)}
            IN IF q = 0 THEN {}
               ELSE IF h[p + 1].c \in NonTranslatable /\ (q = p + 2 \/ IsSpace(h[p + 2].c))
                    THEN IF R = {} THEN {} ELSE TextPieces(h, Min(R) + 4)
                    ELSE TextPieces(h, q + 1)
       ELSE {p} \cup TextPieces(h, p + 1)

\* the maximal runs <<a, b>> of text pieces of h
TextRuns(h) ==
  LET T == TextPieces(h, 1)
  IN {<<a, b>> \in T \X T :
        /\ a <= b
        /\ \A k \in a..b : k \in T
        /\ (a - 1) \notin T /\ (b + 1) \notin T}

\* every "<" that opens a tag or a block has its ">" and its close tag
WellTerminated(h) ==
  /\ UnclosedOpenTags(h) = {}
  /\ \A p \in 1..Len(h) :
       (h[p].c = "<" /\ p + 1 <= Len(h) /\ h[p + 1].c \in NonTranslatable \cup {"a", "html", "/"})
         => FirstIndex(h, p + 1, ">") # 0

\* C24: the segments of a document are exactly its runs of characters outside
\* tags and outside non-translatable blocks that hold a non-whitespace
\* character: no whitespace-only run is a segment, no other run is left out,
\* and start, end and text are those of the whole untrimmed run.
C24_SegmentsAreTheNonBlankRuns ==
  (pc \in {"extracted", "reassembled"} /\ WellTerminated(html)) =>
    {segments[k] : k \in 1..Len(segments)} =
      {Segment(html, r[1], SubSeq(html, r[1], r[2])) :
         r \in {t \in TextRuns(html) : NonBlank(SubSeq(html, t[1], t[2]))}}

\* the annotated segment of the caller's list that starts at offset `start`
AnnotatedAt(start) ==
  LET k == CHOOSE k \in 1..Len(allTranslatedSegments) : allTranslatedSegments[k].start = start
  IN allTranslatedSegments[k]

\* the caller's list in document order, each segment with the text that stands
\* for it in the result: its translation, or its own text when it has none
InDocumentOrder ==
  [k \in 1..Len(segments) |->
     LET seg == AnnotatedAt(segments[k].start)
     IN WithTranslation(seg, IF seg.translatedText = <<>> THEN seg.text
                             ELSE seg.translatedText)]

\* C25: whatever the order of the annotated segments in the list given to
\* reassembleHTML, the result is the document with every segment's range
\* replaced by its translation, and the list given is left in its order.
C25_ReassemblyIsOrderIndependent ==
  /\ [](pc = "reassembled" =>
          translatedHTML =
            Norm(Outside(html, segments, 0) \o Interleaved(html, segments, InDocumentOrder, 1)))
  /\ [][pc = "annotated" => allTranslatedSegments' = allTranslatedSegments]_vars

\* three segments listed neither from first to last nor from last to first,
\* with translations of other lengths than the texts
C25_Witness ==
  /\ pc = "reassembled"
  /\ Len(allTranslatedSegments) = 3
  /\ allTranslatedSegments[1].start > allTranslatedSegments[2].start
  /\ allTranslatedSegments[2].start < allTranslatedSegments[3].start
  /\ \A k \in 1..3 :
       /\ allTranslatedSegments[k].translatedText # <<>>
       /\ StrLen(allTranslatedSegments[k].translatedText) # StrLen(allTranslatedSegments[k].text)

\* translateHTML is past its first step for a document of more than 15000
\* characters to be translated to ru
LongRussian ==
  /\ pc # "start"
  /\ apiKey /\ language = "ru"
  /\ StrLen(html) > 15000

\* C26: every document of more than 15000 characters translated to ru goes
\* through the chunked path and is split into at least 2 chunks.
C26_LongDocumentGivesTwoChunks ==
  LongRussian =>
    /\ ~InDirect /\ \A k \in 1..Len(calls) : calls[k] # 0
    /\ Len(chunks) >= 2

\* C26 as the code has it: such a document goes through the chunked path; one
\* without segments is returned as it is, without chunks; any other gives at
\* least one chunk, and at least 2 chunks exactly when it has two segments or
\* more whose texts together exceed 4000 characters.
C26_LongDocumentChunksByItsText ==
  LongRussian =>
    /\ ~InDirect /\ \A k \in 1..Len(calls) : calls[k] # 0
    /\ segments = extractTextSegments(html)
    /\ IF segments = <<>>
       THEN chunks = <<>> /\ requests = 0 /\ outcome = Returned(html)
       ELSE /\ Len(chunks) >= 1
            /\ Len(chunks) >= 2 <=> (Len(segments) >= 2 /\ ChunkSize(segments) > 4000)

\* a padded document whose two texts of 4000 and 1 characters went to two
\* chunks, both translated
C26_Witness ==
  /\ LongRussian
  /\ pc = "done" /\ outcome.kind = "returned"
  /\ Len(segments) = 2
  /\ Len(chunks) = 2
  /\ ChunkSize(segments) = 4001

\* C27: without the credential translateHTML fails at once with the
\* configuration error, whatever the document and the language: its first
\* step ends the call with that error, and no request is issued, no sleep
\* made and no attempt started.
C27_NoCredentialFailsAtOnce ==
  /\ [](~apiKey =>
          /\ pc \in {"start", "done"}
          /\ requests = 0 /\ calls = <<>> /\ outstanding = 0
          /\ sleeps = <<>>
          /\ attempt = 0
          /\ pc = "done" => outcome = Thrown("GEMINI_API_KEY not configured", 0))
  /\ [][(~apiKey /\ pc = "start") => (pc' = "done" /\ outcome'.kind = "thrown")]_vars

\* a long document for ru has failed without the credential
C27_Witness ==
  /\ ~apiKey
  /\ pc = "done"
  /\ language = "ru" /\ StrLen(html) > 15000
  /\ outcome.kind = "thrown"

\* a request has been answered or has thrown, and the loop sleeps before its
\* next iteration
AttemptFailsIntoBackoff ==
  /\ pc \in {"direct_await", "chunk_await", "validated_await"}
  /\ pc' \in {"direct_backoff", "chunk_backoff", "validated_backoff"}

\* the sleep is over and the next attempt begins
NextAttemptBegins ==
  /\ pc \in {"direct_backoff", "chunk_backoff", "validated_backoff"}
  /\ pc' \in {"direct_call", "chunk_call", "validated_call"}

\* C28: in the retry loops of the chunk translator and of the direct
\* translator, attempt k that fails, by rejection or by a thrown error, is
\* followed by one sleep of 2000 * k ms, and attempt k + 1 begins after that
\* sleep and no other: 2000 ms after the first failure, 4000 after the second.
C28_BackoffIsTwoSecondsTimesAttempt ==
  /\ [][AttemptFailsIntoBackoff => sleeps' = Append(sleeps, 2000 * attempt)]_vars
  /\ [][NextAttemptBegins =>
          /\ attempt' = attempt + 1
          /\ sleeps' = sleeps
          /\ sleeps[Len(sleeps)] = 2000 * attempt]_vars

\* the third attempt for the second chunk begins: 500 ms between the chunks,
\* then 2000 and 4000 ms after the two failures
C28_Witness ==
  /\ pc = "chunk_call"
  /\ i = 1
  /\ attempt = 3
  /\ sleeps = <<500, 2000, 4000>>

\* the document had one chunk, and the response accepted for it repeats the
\* request's numbered list, every segment's text as it was sent
ModelPreservedText ==
  /\ pc = "done"
  /\ Len(chunks) = 1
  /\ Len(allTranslatedSegments) = Len(segments)
  /\ response = textList(chunks[1])

\* C29: when the response repeats every numbered segment with exactly the
\* text that was sent, whitespace at its ends and line breaks inside it
\* included, the document the chunked path returns is the original document.
C29_PreservedTextGivesSameDocument ==
  (ModelPreservedText /\ outcome.kind = "returned") => outcome.html = html

\* C30: processTranslationWithRetry stops only when processTranslationJob has
\* completed; the delay after failed attempt k is min(2^k * 1000, 300000) ms,
\* never shorter than the one before and never above 300 s; after every
\* failed attempt the loop sleeps and then makes another attempt, however
\* many have failed.
C30_JobRetriedUntilItCompletes ==
  /\ [](/\ pc = "job_done" =>
             (jobLog # <<>> /\ jobLog[Len(jobLog)] = "completed")
        /\ \A k \in 1..(Len(jobLog) - 1) : jobLog[k] # "completed"
        /\ Len(jobDelays) = Cardinality({k \in 1..Len(jobLog) : jobLog[k] # "completed"})
        /\ \A k \in 1..Len(jobDelays) :
             /\ jobDelays[k] = (IF (2 ^ k) * 1000 < 300000 THEN (2 ^ k) * 1000 ELSE 300000)
             /\ jobDelays[k] <= 300000
             /\ k > 1 => jobDelays[k - 1] <= jobDelays[k])
  /\ [][(pc = "job_await" /\ jobLog'[Len(jobLog')] # "completed") =>
          (pc' = "job_sleep" /\ Len(jobDelays') = jobAttempt)]_vars
  /\ \A k \in 1..(MaxJobAttempts - 1) :
       (pc = "job_sleep" /\ jobAttempt = k) ~> (pc = "job_await" /\ jobAttempt = k + 1)

\* nine attempts have failed, and the ninth delay is the ceiling
C30_Witness ==
  /\ pc = "job_sleep"
  /\ jobAttempt = 9
  /\ \A k \in 1..9 : jobLog[k] \in JobErrors
  /\ jobDelays[8] = 256000
  /\ jobDelays[9] = 300000

\* the places k of the chunk just accepted whose segment got the text the
\* response has under the segment's own index k - 1
TranslatedFromResponse ==
  LET map == ParseResponse(response)
  IN {k \in 1..Len(chunks[i + 1]) : (k - 1) \in DOMAIN map /\ map[k - 1] # <<>>}

\* C31: when a response is accepted for a chunk of n segments, at least 80%
\* of the n segments returned carry the text the response gave for their own
\* index; an index outside 0..n-1 or an empty text counts for nothing.
C31_EightyPercentFromOwnIndex ==
  ChunkJustAccepted =>
    10 * Cardinality(TranslatedFromResponse) >= 8 * Len(chunks[i + 1])

\* the number of segments in the first k chunks
RECURSIVE SegmentsInChunks(_)
SegmentsInChunks(k) == IF k = 0 THEN 0 ELSE Len(chunks[k]) + SegmentsInChunks(k - 1)

\* C32: a chunk that fails terminally fails translateHTML for the whole
\* document: the loop reaches a chunk only with every chunk before it
\* translated, a failed chunk ends the call with an error and without a
\* reassembled document, and no request is issued for a later chunk.
C32_ChunkFailureFailsDocument ==
  /\ pc \in {"chunk_call", "chunk_await", "chunk_backoff"} =>
       Len(allTranslatedSegments) = SegmentsInChunks(i)
  /\ ChunkFailed =>
       /\ translatedHTML = <<>> /\ outcome.html = <<>>
       /\ Len(allTranslatedSegments) = SegmentsInChunks(i)
       /\ \A k \in 1..Len(calls) : calls[k] <= i + 1
  /\ (pc = "done" /\ chunks # <<>> /\ outcome.kind = "returned") =>
       Len(allTranslatedSegments) = Len(segments)

\* the first of two chunks has failed after three requests; none was made
\* for the second
C32_Witness ==
  /\ ChunkFailed
  /\ Len(chunks) = 2
  /\ i = 0
  /\ calls = <<1, 1, 1>>

\* translateHTML is past the choice of its path, or its first step is one of
\* those without an extraction
PathChosen ==
  \/ pc # "start"
  \/ ~apiKey \/ language = "en" \/ StrLen(html) <= CHUNK_THRESHOLD

\* C33: when every request returns or throws in the end, translateHTML ends
\* for every document and language, with at most 3 requests on the direct
\* path and at most 3 for each chunk on the chunked path.  (The first step of
\* a long document, the extraction, is synchronous code: it leads to the
\* chunk loop or to the end in one step.)
C33_TranslationTerminatesWithinBudget ==
  /\ [](/\ StrLen(html) <= CHUNK_THRESHOLD => requests <= 3
        /\ StrLen(html) > CHUNK_THRESHOLD => requests <= 3 * Len(chunks)
        /\ \A c \in 1..Len(chunks) : CallsFor(c) <= 3)
  /\ [][pc = "start" => pc' \in {"done", "direct_call", "chunk_call"}]_vars
  /\ PathChosen ~> (pc = "done")

\* both chunks of a document used all three requests, and the call has ended
C33_Witness ==
  /\ pc = "done"
  /\ Len(chunks) = 2
  /\ requests = 6
  /\ calls = <<1, 1, 1, 2, 2, 2>>

\* the files whose call of translateHTML has been made
Called == {k \in 1..Len(files) : tasks[k].state # "unstarted"}

\* C34: the sequential translateAllHTMLFiles translates one document at a
\* time in the order of the list: a call is made only when the calls for all
\* earlier files have returned; after a document has failed no call is made
\* for a later one, and the error thrown carries none of the results
\* collected before.
C34_SequentialStopsAtFirstFailure ==
  variant = "sequential" =>
    /\ Cardinality({k \in 1..Len(files) : tasks[k].state = "running"}) <= 1
    /\ \A k \in Called : \A j \in 1..(k - 1) : tasks[j].state = "fulfilled"
    /\ order = [k \in 1..Len(order) |-> k]
    /\ \A k \in Failed :
         /\ \A j \in (k + 1)..Len(files) : tasks[j].state = "unstarted"
         /\ batch.kind = "thrown" /\ batch.error = tasks[k].error
         /\ batch.files = <<>>
    /\ batch.kind = "returned" => batch.files = results

\* of three files the first was translated and collected, the second failed,
\* and the third was never called
C34_Witness ==
  /\ variant = "sequential"
  /\ Len(files) = 3
  /\ tasks[1].state = "fulfilled" /\ Len(results) = 1
  /\ tasks[2].state = "rejected"
  /\ tasks[3].state = "unstarted"
  /\ batch.kind = "thrown"

\* C35: a backoff is waited only between two attempts: the loop never sleeps
\* after the third failed attempt of a chunk or document, so no sleep is
\* longer than the 4000 ms that follow a second failure.
C35_NoBackoffAfterFinalAttempt ==
  /\ pc \in {"direct_backoff", "chunk_backoff", "validated_backoff"} => attempt < 3
  /\ \A k \in 1..Len(sleeps) : sleeps[k] <= 4000

\* translateHTML is past its first step for a document above the threshold
\* that has no text segment, and a language other than "en"
LongWithoutText ==
  /\ pc # "start"
  /\ apiKey /\ language # "en"
  /\ StrLen(html) > 15000
  /\ extractTextSegments(html) = <<>>

\* C36: a document above the threshold without text segments is returned as
\* it is, with no request, no sleep and no error, for every language other
\* than "en", those with a script check included.
C36_NoSegmentsReturnedUnchanged ==
  LongWithoutText =>
    /\ pc = "done"
    /\ outcome = Returned(html)
    /\ requests = 0 /\ calls = <<>> /\ sleeps = <<>>
    /\ chunks = <<>>

\* for ru, a long document of tags only, without any Cyrillic character, has
\* been returned
C36_Witness ==
  /\ LongWithoutText
  /\ language = "ru"
  /\ ~PatternTest("ru", html)
  /\ outcome.kind = "returned"

\* C37: the generation requests of a job belong to its current attempt: once
\* processTranslationWithRetry has started a later attempt, no translateHTML
\* call started by an earlier attempt is still running, and no request is
\* issued by a call of an attempt other than the current one
C37_RequestsBelongToCurrentAttempt ==
  /\ \A a \in 1..Len(live) : a < jobAttempt => live[a] = 0
  /\ \A r \in jobRequests : r.by = r.during

\* C38: over all attempts of one job decrement_pages takes effect at most
\* once, and only in an attempt that ends with processTranslationJob
\* returning (the job reported successful)
C38_CreditsDecrementedOnceOnSuccess ==
  /\ Len(decrements) <= 1
  /\ \A d \in 1..Len(decrements) :
       Len(jobLog) >= decrements[d] => jobLog[decrements[d]] = "completed"

\* the attempts of processTranslationJob that have thrown
ThrownAttempts == {k \in 1..Len(jobLog) : jobLog[k] # "completed"}

\* dbWrites[w] is the update of the queue row to failed, with the message of
\* the error attempt k threw
FailedWrite(w, k) ==
  /\ dbWrites[w].table = "translation_queue"
  /\ dbWrites[w].status = "failed"
  /\ dbWrites[w].error_message = jobLog[k]
  /\ dbWrites[w].attempt = k

\* attempt k issues no update of the queue row to completed, and none of the
\* project row after dbWrites[w]
NoCompletedWrite(w, k) ==
  \A v \in 1..Len(dbWrites) :
    (dbWrites[v].attempt = k /\ dbWrites[v].status = "completed") =>
      (dbWrites[v].table = "projects" /\ v < w)

\* no update of the queue row to failed follows one to completed that the
\* database applied
CompletedStays ==
  \A v, w \in 1..Len(dbWrites) :
    (/\ v < w
     /\ dbWrites[v].table = "translation_queue"
     /\ dbWrites[v].status = "completed"
     /\ dbWrites[v].applied) =>
      ~(dbWrites[w].table = "translation_queue" /\ dbWrites[w].status = "failed")

\* C39 as stated: when an attempt of processTranslationJob has thrown, the
\* queue row has been written failed with the error's message, the attempt
\* wrote completed to neither the queue row nor, after the failure, the
\* project row, and a queue row written completed is never written failed
C39_ThrownAttemptMarkedFailed ==
  /\ \A k \in ThrownAttempts :
       \E w \in 1..Len(dbWrites) :
         FailedWrite(w, k) /\ dbWrites[w].applied /\ NoCompletedWrite(w, k)
  /\ CompletedStays

\* C39: when an attempt of processTranslationJob has thrown, it has issued
\* the update of the queue row to failed with the error's message (the
\* database may have turned the update down, which is only logged), it
\* issued no update to completed of the queue row nor, after the failure, of
\* the project row, and a queue row written completed is never written failed
C39_ThrownAttemptIssuesFailed ==
  /\ \A k \in ThrownAttempts :
       \E w \in 1..Len(dbWrites) : FailedWrite(w, k) /\ NoCompletedWrite(w, k)
  /\ CompletedStays

\* an attempt threw on the project update, and the next one completed
C39_Witness ==
  /\ Len(jobLog) = 2
  /\ jobLog[1] = "Database update failed"
  /\ jobLog[2] = "completed"

\* C40: POST /translate answers 400 and starts nothing when one of jobId,
\* projectId, templateZipUrl, processedHtmlFiles, language is missing (absent
\* or empty); otherwise it acknowledges with received: true before any
\* attempt of the job has begun, and starts exactly one retry loop
C40_PostTranslateAcknowledges ==
  /\ reply = NoReply => (pc = "post" /\ loops = 0 /\ jobAttempt = 0)
  /\ pc # "post" =>
       IF \E f \in Required : Falsy(body, f)
       THEN /\ reply.status = 400 /\ ~reply.received
            /\ loops = 0 /\ jobAttempt = 0
            /\ live = <<>> /\ dbWrites = <<>> /\ jobLog = <<>>
       ELSE /\ reply.status = 200 /\ reply.received
            /\ loops = 1

\* the request is acknowledged and no attempt of its job has begun yet
C40_Witness ==
  /\ reply.received
  /\ loops = 1
  /\ pc = "job_loop"
  /\ jobAttempt = 0

====
